---------------------------- MODULE Spec2Model ----------------------------
(***************************************************************************)
(* Model of the maritime traffic environment of TUD_RL:                    *)
(*   FossenEnv (reset / step / _get_TS / _handle_respawn / _set_COLREGs /  *)
(*   _get_COLREG_situation), KVLCC2._upd_dynamics and                      *)
(*   HHOS_PathPlanning_Env._manual_heading_control.                        *)
(*                                                                         *)
(* Units.  Angles are integers counting steps of 2.5 degrees (every        *)
(* angular literal of the code is a multiple of 2.5 degrees), so a full    *)
(* turn is 144 steps.  Degrees are integers counting tenths of a degree,   *)
(* so rtd multiplies by 25.  Lengths are integers counting 25 mm (the      *)
(* collision distance 6.275 m is 251 of them).  Speeds count 25 mm/s.      *)
(* Sines and cosines are integers scaled by 1000.                          *)
(***************************************************************************)
EXTENDS Integers, Sequences, FiniteSets

VARIABLES
    OS,              \* own ship (FossenEnv.OS), a vessel record
    goal,            \* FossenEnv.goal, [N, E]
    TSs,             \* FossenEnv.TSs, sequence of vessel records
    TS_COLREGs,      \* FossenEnv.TS_COLREGs
    TS_COLREGs_old,  \* FossenEnv.TS_COLREGs_old
    respawn_flags,   \* FossenEnv.respawn_flags
    step_cnt,        \* FossenEnv.step_cnt
    spawned,         \* history: indices of TSs that the last reset/step got from _get_TS
    depth,           \* history: number of steps taken since the initial state
    kv,              \* a KVLCC2 vessel (own ship of HHOS_PathPlanning_Env)
    ret,             \* result of the last direct _handle_respawn / _get_TS call
    hhos,            \* the fields of HHOS_PathPlanning_Env that _done reads, and its result
    env,             \* the remaining fields of the object a specification is about, as a record
    state_design,    \* FossenEnv.state_design
    state,           \* FossenEnv.state, the observation
    r_coll,          \* FossenEnv.r_coll
    r_COLREG,        \* FossenEnv.r_COLREG
    done,            \* the flag d the last step returned
    sim_t,           \* FossenEnv.sim_t, counted in ticks of delta_t
    op               \* name of the last operation

\* what FossenEnv computes for its caller
outs == <<state_design, state, r_coll, r_COLREG, done, sim_t>>

vars == <<OS, goal, TSs, TS_COLREGs, TS_COLREGs_old, respawn_flags, step_cnt,
          spawned, depth, kv, ret, op, hhos, env, outs>>

(***************************************************************************)
(* Arithmetic helpers                                                      *)
(***************************************************************************)
Abs(x) == IF x < 0 THEN -x ELSE x

Sq(x) == x * x

\* x / d rounded to the nearest integer (d > 0)
RoundDiv(x, d) == (2 * x + d) \div (2 * d)

Min2(a, b) == IF a <= b THEN a ELSE b

Max2(a, b) == IF a >= b THEN a ELSE b

Clip(x, lo, hi) == Max2(lo, Min2(x, hi))

Range(s) == {s[i] : i \in DOMAIN s}

(***************************************************************************)
(* Angles (FossenFnc)                                                      *)
(***************************************************************************)
Pi == 72

TwoPi == 2 * Pi

\* rtd: radians to degrees (tenths of a degree)
rtd(a) == a * 25

\* dtr: degrees (tenths of a degree, a multiple of 2.5 degrees) to radians
dtr(d) == d \div 25

\* angle_to_2pi: wrap into [0, 2pi)
angle_to_2pi(a) == a % TwoPi

\* angle_to_pi: wrap into [-pi, pi)
angle_to_pi(a) == ((a + Pi) % TwoPi) - Pi

\* 1000 * cos of 0, 2.5, ..., 90 degrees
CosQ == <<1000, 999, 996, 991, 985, 976, 966, 954, 940, 924, 906, 887, 866,
          843, 819, 793, 766, 737, 707, 676, 643, 609, 574, 537, 500, 462,
          423, 383, 342, 301, 259, 216, 174, 131, 87, 44, 0>>

Cos(a) ==
    LET b == angle_to_2pi(a)
    IN  IF b <= 36 THEN CosQ[b + 1]
        ELSE IF b <= 72 THEN -CosQ[72 - b + 1]
        ELSE IF b <= 108 THEN -CosQ[b - 72 + 1]
        ELSE CosQ[144 - b + 1]

Sin(a) == Cos(a - 36)

\* 1000 * tan of 0, 2.5, ..., 45 degrees
TanQ == <<0, 44, 87, 132, 176, 222, 268, 315, 364, 414, 466, 521, 577, 637,
          700, 767, 839, 916, 1000>>

\* atan(y / x) for 0 <= y <= x, x > 0, rounded down to a step of 2.5 degrees
AtanFloor(y, x) ==
    CHOOSE k \in 0..18 :
        /\ TanQ[k + 1] * x <= 1000 * y
        /\ (k = 18 \/ TanQ[k + 2] * x > 1000 * y)

\* atan(y / x) for 0 <= y <= x, x > 0, rounded up to a step of 2.5 degrees
AtanCeil(y, x) ==
    CHOOSE k \in 0..18 :
        /\ TanQ[k + 1] * x >= 1000 * y
        /\ (k = 0 \/ TanQ[k] * x < 1000 * y)

\* angle of the vector (a along the axis, b across it), a > 0, b >= 0,
\* in [0, pi/2], rounded down
QuadAngle(a, b) == IF b <= a THEN AtanFloor(b, a) ELSE 36 - AtanCeil(a, b)

\* bng_abs: absolute bearing of (N1, E1) seen from (N0, E0), clockwise from
\* north, in [0, 2pi)
bng_abs(N0, E0, N1, E1) ==
    LET dN == N1 - N0
        dE == E1 - E0
    IN  IF dN = 0 /\ dE = 0 THEN 0
        ELSE IF dN > 0 /\ dE >= 0 THEN QuadAngle(dN, dE)
        ELSE IF dE > 0 /\ dN <= 0 THEN 36 + QuadAngle(dE, -dN)
        ELSE IF dN < 0 /\ dE <= 0 THEN 72 + QuadAngle(-dN, -dE)
        ELSE 108 + QuadAngle(-dE, dN)

\* bng_rel: relative bearing of (N1, E1) from a vessel at (N0, E0) heading head0
bng_rel(N0, E0, N1, E1, head0) == angle_to_2pi(bng_abs(N0, E0, N1, E1) - head0)

\* head_inter: heading intersection angle C_T in [0, 2pi)
head_inter(head_OS, head_TS) == angle_to_2pi(head_TS - head_OS)

\* ED squared; ED(..) <= d is EDsq(..) <= d * d
EDsq(N0, E0, N1, E1) == Sq(N0 - N1) + Sq(E0 - E1)

\* 1000 * length of the projection of the polar vector (VA, angleA) on the
\* direction angleB: polar_from_xy(project_vector(..))[0]
V_proj(VA, angleA, angleB) == VA * Abs(Cos(angleA - angleB))


(***************************************************************************)
(* FossenEnv.__init__: simulation settings (lengths in 25 mm)              *)
(***************************************************************************)
N_max == 8000

E_max == 8000

sight == 4000

coll_dist == 251

TCPA_crit == 120

min_dist_spawn_TS == 800

goal_reach_dist == 400

stop_spawn_dist == 5 * goal_reach_dist

(***************************************************************************)
(* Vessels.  A vessel record holds eta = (N, E, psi) and nu in polar form: *)
(* V is the aggregated speed sqrt(u^2 + v^2), slip the sideslip angle and  *)
(* r the sign of the yaw rate.                                             *)
(***************************************************************************)
Vessel(n, e, psi, v, slip, r) ==
    [N |-> n, E |-> e, psi |-> psi, V |-> v, slip |-> slip, r |-> r]

\* _get_V: aggregated velocity
get_V(ves) == ves.V

\* _get_course: heading + sideslip, in [0, 2pi)
get_course(ves) == angle_to_2pi(ves.psi + ves.slip)

\* _is_off_map
is_off_map(ves) == ves.N <= 0 \/ ves.N >= N_max \/ ves.E <= 0 \/ ves.E >= E_max

(***************************************************************************)
(* FossenEnv._get_COLREG_situation                                         *)
(***************************************************************************)
\* the quantities the five tests read: relative bearing OS -> TS, relative
\* bearing TS -> OS, intersection angle, projected OS speed (x 1000)
Geo(os, ts) ==
    [ bng_OS |-> bng_rel(os.N, os.E, ts.N, ts.E, os.psi),
      bng_TS |-> bng_rel(ts.N, ts.E, os.N, os.E, ts.psi),
      C_T    |-> head_inter(os.psi, ts.psi),
      V_rel  |-> V_proj(get_V(os), get_course(os), get_course(ts)),
      V_TS   |-> get_V(ts) ]

out_of_sight(os, ts) == EDsq(os.N, os.E, ts.N, ts.E) > Sq(sight)

\* COLREG 1: Head-on
test_head_on_wide(g) ==
    /\ -50 <= rtd(angle_to_pi(g.bng_OS)) /\ rtd(angle_to_pi(g.bng_OS)) <= 75
    /\ 1750 <= rtd(g.C_T) /\ rtd(g.C_T) <= 1850

test_head_on(g) ==
    /\ -50 <= rtd(angle_to_pi(g.bng_OS)) /\ rtd(angle_to_pi(g.bng_OS)) <= 50
    /\ 1750 <= rtd(g.C_T) /\ rtd(g.C_T) <= 1850

\* COLREG 2: Starboard crossing (small angle)
test_starboard_small_wide(g) ==
    /\ 50 <= rtd(g.bng_OS) /\ rtd(g.bng_OS) <= 450
    /\ 1850 <= rtd(g.C_T) /\ rtd(g.C_T) <= 2125

test_starboard_small(g) ==
    /\ 50 <= rtd(g.bng_OS) /\ rtd(g.bng_OS) <= 450
    /\ 1850 <= rtd(g.C_T) /\ rtd(g.C_T) <= 2100

\* COLREG 3: Starboard crossing (large angle)
test_starboard_large_narrow(g) ==
    /\ 450 < rtd(g.bng_OS) /\ rtd(g.bng_OS) <= 1125
    /\ 2100 < rtd(g.C_T) /\ rtd(g.C_T) < 2925

test_starboard_large(g) ==
    /\ 450 < rtd(g.bng_OS) /\ rtd(g.bng_OS) <= 1125
    /\ 2100 < rtd(g.C_T) /\ rtd(g.C_T) <= 2925

\* COLREG 4: Portside crossing
test_portside_strict(g) ==
    /\ 2475 < rtd(g.bng_OS) /\ rtd(g.bng_OS) <= 3550
    /\ 675 < rtd(g.C_T) /\ rtd(g.C_T) <= 1750

test_portside(g) ==
    /\ 2475 <= rtd(g.bng_OS) /\ rtd(g.bng_OS) <= 3550
    /\ 675 <= rtd(g.C_T) /\ rtd(g.C_T) <= 1750

\* COLREG 5: Overtaking
test_overtaking_no_speed(g) ==
    /\ 1125 <= rtd(g.bng_TS) /\ rtd(g.bng_TS) <= 2475
    /\ -675 <= rtd(angle_to_pi(g.C_T)) /\ rtd(angle_to_pi(g.C_T)) <= 675

test_overtaking(g) ==
    /\ 1125 <= rtd(g.bng_TS) /\ rtd(g.bng_TS) <= 2475
    /\ -675 <= rtd(angle_to_pi(g.C_T)) /\ rtd(angle_to_pi(g.C_T)) <= 675
    /\ g.V_rel > 1000 * g.V_TS

get_COLREG_situation_blind(os, ts) ==
    LET g == Geo(os, ts)
    IN  IF test_head_on(g) THEN 1
        ELSE IF test_starboard_small(g) THEN 2
        ELSE IF test_starboard_large(g) THEN 3
        ELSE IF test_portside(g) THEN 4
        ELSE IF test_overtaking(g) THEN 5
        ELSE 0

get_COLREG_situation(os, ts) ==
    LET g == Geo(os, ts)
    IN  IF out_of_sight(os, ts) THEN 0
        ELSE IF test_head_on(g) THEN 1
        ELSE IF test_starboard_small(g) THEN 2
        ELSE IF test_starboard_large(g) THEN 3
        ELSE IF test_portside(g) THEN 4
        ELSE IF test_overtaking(g) THEN 5
        ELSE 0

set_COLREGs_no_copy(os, tss, colregs) ==
    [ old |-> [i \in 1..Len(tss) |-> get_COLREG_situation(os, tss[i])],
      new |-> [i \in 1..Len(tss) |-> get_COLREG_situation(os, tss[i])] ]

\* _set_COLREGs: the new (TS_COLREGs_old, TS_COLREGs) for own ship os and targets tss
set_COLREGs(os, tss, colregs) ==
    [ old |-> colregs,
      new |-> [i \in 1..Len(tss) |-> get_COLREG_situation(os, tss[i])] ]

(***************************************************************************)
(* Vessel kinematics (CyberShipII) and tcpa (FossenFnc)                    *)
(***************************************************************************)
\* _u_from_tau_u: converged surge speed for a thrust of tau N, tau in 0..5
u_from_tau_u(tau) == <<0, 26, 40, 50, 60, 68>>[tau + 1]

\* world-frame velocity components in tenths of a speed unit
vel_N(ves) == RoundDiv(get_V(ves) * Cos(get_course(ves)), 100)

vel_E(ves) == RoundDiv(get_V(ves) * Sin(get_course(ves)), 100)

\* _upd_dynamics: one tick of delta_t = 0.5 s.  The yaw rate r counts
\* 10 deg/s, so the trapezoidal heading update adds (r_old + r_new) steps;
\* the speed is converged, so the position moves by V * delta_t along the course.
upd_dynamics(ves, r_new) ==
    [ ves EXCEPT !.N   = ves.N + RoundDiv(get_V(ves) * Cos(get_course(ves)), 2000),
                 !.E   = ves.E + RoundDiv(get_V(ves) * Sin(get_course(ves)), 2000),
                 !.psi = angle_to_2pi(ves.psi + ves.r + r_new),
                 !.r   = r_new ]

\* _control: 0 holds, 1 increases, 2 decreases the yaw control, clamped
control(ves, a) ==
    CASE a = 0 -> ves.r
      [] a = 1 -> Clip(ves.r + 1, -1, 1)
      [] a = 2 -> Clip(ves.r - 1, -1, 1)

\* tcpa = nom / den seconds, with
\*   nom = -(relative position . relative velocity), den = |relative velocity|^2
tcpa_nom(os, ts) ==
    -( (ts.N - os.N) * (vel_N(ts) - vel_N(os)) + (ts.E - os.E) * (vel_E(ts) - vel_E(os)) )

tcpa_den(os, ts) == Sq(vel_N(ts) - vel_N(os)) + Sq(vel_E(ts) - vel_E(os))

\* tcpa(..) < b seconds; the velocities are scaled by 10, so tcpa = 10 nom / den.
\* Equal velocities divide by zero: -inf for nom < 0, +inf for nom > 0, nan else.
tcpa_below(os, ts, b) ==
    IF tcpa_den(os, ts) = 0 THEN tcpa_nom(os, ts) < 0
    ELSE 10 * tcpa_nom(os, ts) < b * tcpa_den(os, ts)

\* tcpa(..) > b seconds
tcpa_above(os, ts, b) ==
    IF tcpa_den(os, ts) = 0 THEN tcpa_nom(os, ts) > 0
    ELSE 10 * tcpa_nom(os, ts) > b * tcpa_den(os, ts)

(***************************************************************************)
(* FossenEnv._get_TS                                                       *)
(***************************************************************************)
\* The random draws of one pass of the loop: the COLREG situation s, the
\* intersection angle C (tenths of a degree, inside the window of s), the time
\* t_hit in [TCPA_crit / 2, TCPA_crit], the thrust tau in 0..5 and, for
\* overtaking, the fraction frac / 10 of the maximum speed.
SpawnDraws ==
    { [s |-> 1, C |-> 1800, t_hit |-> 60,  tau |-> 3, frac |-> 0],
      [s |-> 2, C |-> 2100, t_hit |-> 60,  tau |-> 1, frac |-> 0],
      [s |-> 3, C |-> 2925, t_hit |-> 64,  tau |-> 2, frac |-> 0],
      [s |-> 4, C |-> 675,  t_hit |-> 60,  tau |-> 3, frac |-> 0],
      [s |-> 5, C |-> -675, t_hit |-> 120, tau |-> 4, frac |-> 5],
      [s |-> 5, C |-> 0,    t_hit |-> 60,  tau |-> 0, frac |-> 8] }

\* the vessel one pass of the loop constructs from the draw d
get_TS_candidate(os, g, d) ==
    LET bng_abs_goal == bng_abs(os.N, os.E, g.N, g.E)
        chiOS   == get_course(os)
        VOS     == get_V(os)
        \* VOS projected on the bearing to the goal, in tenths of a speed unit
        VR_goal == RoundDiv(VOS * Cos(chiOS - bng_abs_goal), 100)
        E_hit   == os.E + RoundDiv(VR_goal * Sin(bng_abs_goal) * d.t_hit, 10000)
        N_hit   == os.N + RoundDiv(VR_goal * Cos(bng_abs_goal) * d.t_hit, 10000)
        C_TS_s  == IF d.s = 5 THEN angle_to_2pi(dtr(d.C)) ELSE dtr(d.C)
        head_TS_s == angle_to_2pi(C_TS_s + bng_abs_goal)
        V_max_TS  == V_proj(VOS, chiOS, head_TS_s)
        VTS     == IF d.s = 5 THEN RoundDiv(V_max_TS * d.frac, 10000)
                   ELSE u_from_tau_u(d.tau)
        E_TS    == E_hit - RoundDiv(VTS * Sin(head_TS_s) * d.t_hit, 1000)
        N_TS    == N_hit - RoundDiv(VTS * Cos(head_TS_s) * d.t_hit, 1000)
    IN  Vessel(N_TS, E_TS, head_TS_s, VTS, 0, 0)

\* the test that ends the loop
spawn_accepted(tss, c) ==
    \/ Len(tss) = 0
    \/ \A j \in DOMAIN tss :
          EDsq(c.N, c.E, tss[j].N, tss[j].E) >= Sq(min_dist_spawn_TS)

\* the vessels _get_TS can return when self.TSs = tss
get_TS(os, g, tss) ==
    { c \in { get_TS_candidate(os, g, d) : d \in SpawnDraws } : spawn_accepted(tss, c) }

(***************************************************************************)
(* FossenEnv._handle_respawn                                               *)
(***************************************************************************)
Result(ts, flag) == [TS |-> ts, flag |-> flag, error |-> FALSE]

Failure(ts) == [TS |-> ts, flag |-> FALSE, error |-> TRUE]

BoolInt(b) == IF b THEN 1 ELSE 0

\* the (vessel, respawn_flag) pairs the call can return for the vessel ts
handle_respawn_no_tcpa(os, g, tss, ts, respawn, mirrow, clip) ==
    IF /\ EDsq(os.N, os.E, g.N, g.E) > Sq(stop_spawn_dist)
       /\ is_off_map(ts) /\ respawn
    THEN { Result(c, TRUE) : c \in get_TS(os, g, tss) }
    ELSE { Result(ts, FALSE) }

handle_respawn_no_assert(os, g, tss, ts, respawn, mirrow, clip) ==
    IF EDsq(os.N, os.E, g.N, g.E) > Sq(stop_spawn_dist)
    THEN IF is_off_map(ts)
         THEN IF respawn
              THEN { Result(c, TRUE) : c \in get_TS(os, g, tss) }
              ELSE IF mirrow
              THEN IF ts.E <= 0 \/ ts.E >= E_max
                   THEN { Result([ts EXCEPT !.psi = TwoPi - ts.psi], FALSE) }
                   ELSE { Result([ts EXCEPT !.psi = Pi - ts.psi], FALSE) }
              ELSE { Result(ts, FALSE) }
         ELSE { Result(ts, FALSE) }
    ELSE { Result(ts, FALSE) }

handle_respawn(os, g, tss, ts, respawn, mirrow, clip) ==
    IF BoolInt(respawn) + BoolInt(mirrow) + BoolInt(clip) > 1
    THEN { Failure(ts) }
    ELSE IF EDsq(os.N, os.E, g.N, g.E) > Sq(stop_spawn_dist)
    THEN IF is_off_map(ts)
         THEN IF respawn
              THEN { Result(c, TRUE) : c \in get_TS(os, g, tss) }
              ELSE IF mirrow
              THEN IF ts.E <= 0 \/ ts.E >= E_max
                   THEN { Result([ts EXCEPT !.psi = TwoPi - ts.psi], FALSE) }
                   ELSE { Result([ts EXCEPT !.psi = Pi - ts.psi], FALSE) }
              ELSE IF clip
              THEN { Result([ts EXCEPT !.N = Clip(ts.N, 0, N_max),
                                       !.E = Clip(ts.E, 0, E_max)], FALSE) }
              ELSE { Result(ts, FALSE) }
         ELSE IF \/ tcpa_below(os, ts, -(TCPA_crit \div 10))
                 \/ tcpa_above(os, ts, (5 * TCPA_crit) \div 4)
              THEN { Result(c, TRUE) : c \in get_TS(os, g, tss) }
              ELSE { Result(ts, FALSE) }
    ELSE { Result(ts, FALSE) }

\* FossenEnv.__init__: the reward terms are 0, no observation, no step yet
IdleOutputs ==
    /\ state_design = "RecDQN"
    /\ state = <<>>
    /\ r_coll = 0
    /\ r_COLREG = 0
    /\ done = FALSE
    /\ sim_t = 0

\* values of the variables an operation does not use
Idle_kv == [psi |-> 0, u |-> 0, r |-> 0, nps |-> 0, rud_angle |-> 0, action |-> 0]

Idle_ret == Result(Vessel(0, 0, 0, 0, 0, 0), FALSE)

Idle_hhos == [glo_ye |-> 0, n_wps_glo |-> 0, glo_wp1_idx |-> 0, glo_wp2_idx |-> 0,
              glo_wp3_idx |-> 0, step_cnt |-> 0, d |-> FALSE]

Idle_env == [cls |-> "none"]

(***************************************************************************)
(* FossenEnv._set_state, _calculate_reward and _done                       *)
(***************************************************************************)
\* number of target slots the environment is constructed with
N_TSs_max == 2

\* FossenEnv._max_episode_steps
max_episode_steps == 500

\* the state designs __init__ knows
StateDesigns == {"RecDQN", "maxRisk"}

\* floor of the square root, by bisection between lo and hi
RECURSIVE IsqrtIn(_, _, _)
IsqrtIn(x, lo, hi) ==
    IF lo >= hi THEN lo
    ELSE LET mid == (lo + hi + 1) \div 2
         IN  IF mid * mid <= x THEN IsqrtIn(x, mid, hi) ELSE IsqrtIn(x, lo, mid - 1)

Isqrt(x) == IsqrtIn(x, 0, 46340)

\* ED(..., sqrt=True) in length units
ED(N0, E0, N1, E1) == Isqrt(EDsq(N0, E0, N1, E1))

\* the NaN sentinel of the observation
NaN == -1000000

\* OS.length * V**1.26 in length units for V = 0..140 speed units
\* (OS.length = 1.255 m, a fifth of coll_dist)
LengthPow126 ==
    << 0, 0, 1, 2, 3, 4, 5, 6, 7, 8, 9, 10,
       11, 12, 13, 15, 16, 17, 18, 20, 21, 22, 24, 25,
       26, 28, 29, 31, 32, 33, 35, 36, 38, 39, 41, 42,
       44, 46, 47, 49, 50, 52, 53, 55, 57, 58, 60, 62,
       63, 65, 66, 68, 70, 72, 73, 75, 77, 78, 80, 82,
       84, 85, 87, 89, 91, 93, 94, 96, 98, 100, 102, 103,
       105, 107, 109, 111, 113, 115, 116, 118, 120, 122, 124, 126,
       128, 130, 132, 134, 136, 138, 139, 141, 143, 145, 147, 149,
       151, 153, 155, 157, 159, 161, 163, 165, 167, 169, 171, 173,
       175, 178, 180, 182, 184, 186, 188, 190, 192, 194, 196, 198,
       200, 202, 205, 207, 209, 211, 213, 215, 217, 220, 222, 224,
       226, 228, 230, 232, 235, 237, 239, 241, 243 >>

\* _get_ship_domain: OS.length * V**1.26 + 30 * V for V = max(VOS, VR), VR the
\* length of the velocity difference; V = 40 speed units is 1 m/s
get_ship_domain(os, ts) ==
    LET VR == RoundDiv(Isqrt(Sq(vel_N(ts) - vel_N(os)) + Sq(vel_E(ts) - vel_E(os))), 10)
        V  == Min2(Max2(get_V(os), VR), 140)
    IN  LengthPow126[V + 1] + 30 * V

\* risk ratio of a before risk ratio of b, ratios as pairs <<ED, domain>>;
\* a domain of 0 gives inf or nan, which argsort puts last
RiskLess(a, b) ==
    IF b[2] = 0 THEN a[2] # 0
    ELSE IF a[2] = 0 THEN FALSE
    ELSE a[1] * b[2] < b[1] * a[2]

\* np.argsort(risk_ratios): the indices of rr in ascending order, equal
\* ratios in their order in rr (insertion sort, which numpy uses below 17
\* elements)
RECURSIVE InsertSorted(_, _, _)
InsertSorted(order, rr, i) ==
    IF order = <<>> THEN << i >>
    ELSE IF RiskLess(rr[i], rr[order[Len(order)]])
    THEN Append(InsertSorted(SubSeq(order, 1, Len(order) - 1), rr, i), order[Len(order)])
    ELSE Append(order, i)

RECURSIVE argsort(_, _)
argsort(rr, n) == IF n = 0 THEN <<>> ELSE InsertSorted(argsort(rr, n - 1), rr, n)

Reversed(q) == [i \in 1..Len(q) |-> q[Len(q) + 1 - i]]

RECURSIVE Flatten(_)
Flatten(blocks) == IF blocks = <<>> THEN <<>> ELSE Head(blocks) \o Flatten(Tail(blocks))

\* indices of the targets in sight, in the order of self.TSs
RECURSIVE InSightIdx(_, _, _)
InSightIdx(os, tss, n) ==
    IF n = 0 THEN <<>>
    ELSE IF EDsq(os.N, os.E, tss[n].N, tss[n].E) <= Sq(sight)
    THEN Append(InSightIdx(os, tss, n - 1), n)
    ELSE InSightIdx(os, tss, n - 1)

\* the six features of target idx: distance, relative bearing, intersection
\* angle, speed, COLREG situation, inside-domain flag (the divisions by E_max
\* and pi are left out)
TS_features_first_sigma(os, tss, colregs, idx) ==
    LET ts == tss[idx]
        ED_OS_TS == ED(os.N, os.E, ts.N, ts.E)
    IN  << ED_OS_TS,
           angle_to_pi(bng_rel(os.N, os.E, ts.N, ts.E, os.psi)),
           angle_to_pi(head_inter(os.psi, ts.psi)),
           get_V(ts),
           colregs[1],
           IF EDsq(os.N, os.E, ts.N, ts.E) <= Sq(get_ship_domain(os, ts)) THEN 1 ELSE 0 >>

TS_features(os, tss, colregs, idx) ==
    LET ts == tss[idx]
        ED_OS_TS == ED(os.N, os.E, ts.N, ts.E)
    IN  << ED_OS_TS,
           angle_to_pi(bng_rel(os.N, os.E, ts.N, ts.E, os.psi)),
           angle_to_pi(head_inter(os.psi, ts.psi)),
           get_V(ts),
           colregs[idx],
           IF EDsq(os.N, os.E, ts.N, ts.E) <= Sq(get_ship_domain(os, ts)) THEN 1 ELSE 0 >>

num_obs_OS == 9

num_obs_TS == 6

\* the part of the observation that describes the targets
state_TSs_unpadded(design, os, tss, colregs) ==
    LET seen  == InSightIdx(os, tss, Len(tss))
        rr    == [k \in 1..Len(seen) |->
                    << ED(os.N, os.E, tss[seen[k]].N, tss[seen[k]].E),
                       get_ship_domain(os, tss[seen[k]]) >>]
        order == Reversed(argsort(rr, Len(rr)))
        blocks == [k \in 1..Len(order) |-> TS_features(os, tss, colregs, seen[order[k]])]
    IN  IF Len(seen) = 0
        THEN IF design = "RecDQN"
             THEN [k \in 1..(num_obs_TS * N_TSs_max) |-> NaN]
             ELSE [k \in 1..num_obs_TS |-> 0]
        ELSE IF design = "RecDQN"
             THEN Flatten(blocks)
             ELSE blocks[Len(blocks)]

state_TSs_ascending(design, os, tss, colregs) ==
    LET seen  == InSightIdx(os, tss, Len(tss))
        rr    == [k \in 1..Len(seen) |->
                    << ED(os.N, os.E, tss[seen[k]].N, tss[seen[k]].E),
                       get_ship_domain(os, tss[seen[k]]) >>]
        order == argsort(rr, Len(rr))
        blocks == [k \in 1..Len(order) |-> TS_features(os, tss, colregs, seen[order[k]])]
    IN  IF Len(seen) = 0
        THEN IF design = "RecDQN"
             THEN [k \in 1..(num_obs_TS * N_TSs_max) |-> NaN]
             ELSE [k \in 1..num_obs_TS |-> 0]
        ELSE IF design = "RecDQN"
             THEN Flatten(blocks) \o
                  [k \in 1..(num_obs_TS * N_TSs_max - num_obs_TS * Len(blocks)) |-> NaN]
             ELSE blocks[Len(blocks)]

state_TSs(design, os, tss, colregs) ==
    LET seen  == InSightIdx(os, tss, Len(tss))
        rr    == [k \in 1..Len(seen) |->
                    << ED(os.N, os.E, tss[seen[k]].N, tss[seen[k]].E),
                       get_ship_domain(os, tss[seen[k]]) >>]
        order == Reversed(argsort(rr, Len(rr)))
        blocks == [k \in 1..Len(order) |-> TS_features(os, tss, colregs, seen[order[k]])]
    IN  IF Len(seen) = 0
        THEN IF design = "RecDQN"
             THEN [k \in 1..(num_obs_TS * N_TSs_max) |-> NaN]
             ELSE [k \in 1..num_obs_TS |-> 0]
        ELSE IF design = "RecDQN"
             THEN Flatten(blocks) \o
                  [k \in 1..(num_obs_TS * N_TSs_max - num_obs_TS * Len(blocks)) |-> NaN]
             ELSE blocks[Len(blocks)]

\* _set_state: seven own-ship features (nu, heading, r_dot, heading_dot and
\* the control share, the last three following the yaw rate), two goal
\* features, then the targets
set_state(design, os, g, tss, colregs) ==
    << get_V(os), os.slip, os.r, angle_to_pi(os.psi), os.r, os.r, os.r >>
    \o << angle_to_pi(bng_rel(os.N, os.E, g.N, g.E, os.psi)), ED(os.N, os.E, g.N, g.E) >>
    \o state_TSs(design, os, tss, colregs)

\* tcpa(..) >= 0; nan >= 0 is False
tcpa_nonneg(os, ts) ==
    IF tcpa_den(os, ts) = 0 THEN tcpa_nom(os, ts) > 0
    ELSE tcpa_nom(os, ts) >= 0

\* number of the indices of the set S
RECURSIVE Count(_)
Count(S) == IF S = {} THEN 0 ELSE 1 + Count(S \ {CHOOSE x \in S : TRUE})

\* r_coll of _calculate_reward: -10 for every target with ED_TS <= coll_dist
reward_coll_strict(os, tss) ==
    -10 * Count({ i \in DOMAIN tss :
                    EDsq(os.N, os.E, tss[i].N, tss[i].E) < Sq(coll_dist) })

reward_coll(os, tss) ==
    -10 * Count({ i \in DOMAIN tss :
                    EDsq(os.N, os.E, tss[i].N, tss[i].E) <= Sq(coll_dist) })

\* r_COLREG of _calculate_reward: -3 for every target that is not freshly
\* spawned, is in sight with tcpa >= 0 and against which the own ship turns
\* the wrong way
reward_COLREG_all(os, tss, flags, colregs) ==
    -3 * Count({ i \in DOMAIN tss :
                   /\ EDsq(os.N, os.E, tss[i].N, tss[i].E) <= Sq(sight)
                   /\ tcpa_nonneg(os, tss[i])
                   /\ \/ colregs[i] \in {1, 2} /\ os.r < 0
                      \/ colregs[i] \in {3} /\ os.r > 0 })

reward_COLREG(os, tss, flags, colregs) ==
    -3 * Count({ i \in DOMAIN tss :
                   /\ ~ flags[i]
                   /\ EDsq(os.N, os.E, tss[i].N, tss[i].E) <= Sq(sight)
                   /\ tcpa_nonneg(os, tss[i])
                   /\ \/ colregs[i] \in {1, 2} /\ os.r < 0
                      \/ colregs[i] \in {3} /\ os.r > 0 })

\* _done: goal reached or step budget exhausted
done_with_collision(os, g, tss, cnt) ==
    \/ EDsq(os.N, os.E, g.N, g.E) <= Sq(goal_reach_dist)
    \/ \E i \in DOMAIN tss : EDsq(os.N, os.E, tss[i].N, tss[i].E) <= Sq(coll_dist)
    \/ cnt >= max_episode_steps

done_without_cap(os, g, tss, cnt) ==
    EDsq(os.N, os.E, g.N, g.E) <= Sq(goal_reach_dist)

is_done(os, g, tss, cnt) ==
    \/ EDsq(os.N, os.E, g.N, g.E) <= Sq(goal_reach_dist)
    \/ cnt >= max_episode_steps

(***************************************************************************)
(* FossenEnv.reset and FossenEnv.step                                      *)
(***************************************************************************)
\* steps explored from each initial state
MaxDepth == 2

\* the four start situations of reset: goal, start position and the heading
\* draws (tenths of a degree) from the sampled range
ResetSituations ==
    { [goal |-> [N |-> (9 * N_max) \div 10, E |-> E_max \div 2],
       N_init |-> N_max \div 10, E_init |-> E_max \div 2,
       heads |-> { angle_to_2pi(dtr(-100)), angle_to_2pi(dtr(100)) }],
      [goal |-> [N |-> N_max \div 2, E |-> (9 * E_max) \div 10],
       N_init |-> N_max \div 2, E_init |-> E_max \div 10,
       heads |-> { dtr(550) }],
      [goal |-> [N |-> N_max \div 10, E |-> E_max \div 2],
       N_init |-> (9 * N_max) \div 10, E_init |-> E_max \div 2,
       heads |-> { dtr(1700) }],
      [goal |-> [N |-> N_max \div 2, E |-> E_max \div 10],
       N_init |-> N_max \div 2, E_init |-> (9 * E_max) \div 10,
       heads |-> { dtr(2800) }] }

\* the fleets the loop "for _ in range(N_TSs): TSs.append(_get_TS())" can build
RECURSIVE ResetFleets(_, _, _)
ResetFleets(os, g, n) ==
    IF n = 0 THEN { <<>> }
    ELSE UNION { { Append(tss, c) : c \in get_TS(os, g, tss) } :
                 tss \in ResetFleets(os, g, n - 1) }

\* the results of [_handle_respawn(TS, respawn=True) for TS in self.TSs] for
\* the first n vessels; every call reads the list tss of before the comprehension
RECURSIVE RespawnAll(_, _, _, _)
RespawnAll(os, g, tss, n) ==
    IF n = 0 THEN { <<>> }
    ELSE { Append(rs, x) : rs \in RespawnAll(os, g, tss, n - 1),
                           x \in handle_respawn(os, g, tss, tss[n], TRUE, FALSE, FALSE) }

\* the environment as constructed: no episode yet
InitConstructed ==
    /\ OS = Vessel(0, 0, 0, 0, 0, 0)
    /\ goal = [N |-> 0, E |-> 0]
    /\ TSs = <<>>
    /\ TS_COLREGs = <<>>
    /\ TS_COLREGs_old = <<>>
    /\ respawn_flags = <<>>
    /\ step_cnt = 0
    /\ state = <<>>
    /\ r_coll = 0
    /\ r_COLREG = 0
    /\ sim_t = 0
    /\ op = "init"

\* Episodes in progress.  The own ship needs some 170 ticks from its start to
\* the neighbourhood of the goal; these states stand for the episode after
\* those ticks: the own ship on the line from start to goal (start situation
\* 0), the targets somewhere on or next to the map.
MidEpisodes ==
    { \* 40 m before the goal (inside stop_spawn_dist); a slow target ahead
      \* reaches the northern boundary in the next tick, the closest approach
      \* to the other one, passed on the port side, is 12 s ago
      [OS  |-> Vessel(5600, 4000, 0, 50, 0, 0), cnt |-> 192,
       TSs |-> << Vessel(7995, 3600, 0, 10, 0, 0), Vessel(4400, 4400, 72, 50, 0, 0) >>],
      \* 105 m before the goal, the same encounter
      [OS  |-> Vessel(3000, 4000, 0, 50, 0, 0), cnt |-> 88,
       TSs |-> << Vessel(7995, 3600, 0, 10, 0, 0), Vessel(1800, 4400, 72, 50, 0, 0) >>],
      \* 10.25 m before the goal, a target crossing 4 m ahead
      [OS  |-> Vessel(6790, 4000, 0, 50, 0, 0), cnt |-> 240,
       TSs |-> << Vessel(6950, 4000, 108, 40, 0, 0) >>],
      \* 60 m before the goal, no target
      [OS  |-> Vessel(4800, 4000, 0, 50, 0, 1), cnt |-> 160,
       TSs |-> << >>],
      \* 105 m before the goal; a target comes head-on and is at the collision
      \* distance after the next tick, another sails alongside 6.3 m to starboard
      [OS  |-> Vessel(3000, 4000, 0, 50, 0, 0), cnt |-> 90,
       TSs |-> << Vessel(3301, 4000, 72, 50, 0, 0), Vessel(3000, 4252, 0, 50, 0, 0) >>],
      \* 105 m south of the goal on an easterly heading; a slow target in the
      \* north-east reaches the northern boundary in the next tick
      [OS  |-> Vessel(3000, 4000, 36, 50, 0, 0), cnt |-> 100,
       TSs |-> << Vessel(7995, 5000, 0, 10, 0, 0) >>],
      \* 105 m before the goal after 498 steps, no target
      [OS  |-> Vessel(3000, 4000, 0, 50, 0, 0), cnt |-> 498,
       TSs |-> << >>],
      \* the same after 499 steps
      [OS  |-> Vessel(3000, 4000, 0, 50, 0, 0), cnt |-> 499,
       TSs |-> << >>] }

InitMidEpisode ==
    \E m \in MidEpisodes :
        /\ OS = m.OS
        /\ goal = [N |-> (9 * N_max) \div 10, E |-> E_max \div 2]
        /\ TSs = m.TSs
        /\ TS_COLREGs = set_COLREGs(m.OS, m.TSs, <<>>).new
        /\ TS_COLREGs_old = set_COLREGs(m.OS, m.TSs, <<>>).new
        /\ respawn_flags = [i \in 1..Len(m.TSs) |-> FALSE]
        /\ step_cnt = m.cnt
        /\ state = set_state(state_design, m.OS, goal, m.TSs, TS_COLREGs)
        /\ r_coll = reward_coll(m.OS, m.TSs)
        /\ r_COLREG = reward_COLREG(m.OS, m.TSs, respawn_flags, TS_COLREGs)
        /\ sim_t = m.cnt
        /\ op = "sailing"

Init ==
    /\ state_design \in StateDesigns
    /\ InitConstructed \/ InitMidEpisode
    /\ done = FALSE
    /\ spawned = {}
    /\ depth = 0
    /\ kv = Idle_kv
    /\ ret = Idle_ret
    /\ hhos = Idle_hhos
    /\ env = Idle_env

\* reset().  N_TSs is N_TSs_max, or with N_TSs_random (and with
\* N_TSs_increasing when N_TSs_max is 3) any of 0..N_TSs_max; respawn_flags is
\* not touched.
Reset ==
    /\ op = "init"
    /\ \E sit \in ResetSituations :
       \E head \in sit.heads :
       \E n \in 0..N_TSs_max :
          LET os == Vessel(sit.N_init, sit.E_init, head, u_from_tau_u(3), 0, 0)
          IN  /\ step_cnt' = 0
              /\ sim_t' = 0
              /\ goal' = sit.goal
              /\ OS' = os
              /\ TSs' \in ResetFleets(os, sit.goal, n)
              /\ TS_COLREGs_old' = set_COLREGs(os, TSs', [i \in 1..n |-> 0]).old
              /\ TS_COLREGs' = set_COLREGs(os, TSs', [i \in 1..n |-> 0]).new
              /\ spawned' = 1..n
              /\ state' = set_state(state_design, os, sit.goal, TSs', TS_COLREGs')
    /\ done' = FALSE
    /\ op' = "reset"
    /\ UNCHANGED <<respawn_flags, depth, kv, ret, hhos, env, state_design, r_coll, r_COLREG>>

\* step(a)
Step ==
    /\ op \in {"reset", "step", "sailing"}
    /\ depth < MaxDepth
    /\ \E a \in 0..2 :
          LET os1  == upd_dynamics(OS, control(OS, a))
              tss1 == [i \in 1..Len(TSs) |-> upd_dynamics(TSs[i], TSs[i].r)]
          IN  /\ OS' = os1
              /\ IF Len(TSs) > 0
                 THEN \E rs \in RespawnAll(os1, goal, tss1, Len(tss1)) :
                         /\ TSs' = [i \in 1..Len(tss1) |-> rs[i].TS]
                         /\ respawn_flags' = [i \in 1..Len(tss1) |-> rs[i].flag]
                         /\ spawned' = { i \in 1..Len(tss1) : rs[i].flag }
                 ELSE /\ TSs' = tss1
                      /\ spawned' = {}
                      /\ UNCHANGED respawn_flags
              /\ TS_COLREGs_old' = set_COLREGs(os1, TSs', TS_COLREGs).old
              /\ TS_COLREGs' = set_COLREGs(os1, TSs', TS_COLREGs).new
              /\ state' = set_state(state_design, os1, goal, TSs', TS_COLREGs')
              /\ r_coll' = reward_coll(os1, TSs')
              /\ r_COLREG' = reward_COLREG(os1, TSs', respawn_flags', TS_COLREGs')
              /\ done' = is_done(os1, goal, TSs', step_cnt + 1)
    /\ step_cnt' = step_cnt + 1
    /\ sim_t' = sim_t + 1
    /\ depth' = depth + 1
    /\ op' = "step"
    /\ UNCHANGED <<goal, kv, ret, hhos, env, state_design>>

Next == Reset \/ Step

Spec == Init /\ [][Next]_vars

(***************************************************************************)
(* Specification SpecCOLREG: _set_COLREGs applied to drawn geometries.     *)
(* The own ship sits at the map centre; the target's position, both        *)
(* headings, the sideslip and the speeds are drawn so that every window    *)
(* boundary of the five tests is hit from both sides.                      *)
(***************************************************************************)
\* target positions: 50 m north, 60 m east, 50 m south and 50 m west (in
\* sight), 101 m north and 80 m north-east (out of sight)
COLREG_TS_positions ==
    { <<6000, 4000>>, <<4000, 6400>>, <<2000, 2000>>, <<8040, 4000>>, <<7200, 7200>> }

\* relative bearings OS -> TS around the boundaries 5, 45, 112.5, 247.5, 355
COLREG_bearings ==
    { 0, 1, 2, 3, 10, 17, 18, 19, 30, 44, 45, 46, 72, 98, 99, 100, 120, 141, 142, 143 }

\* intersection angles around the boundaries 67.5, 175, 185, 210, 292.5
COLREG_inters ==
    { 0, 5, 26, 27, 28, 50, 69, 70, 71, 72, 73, 74, 75, 80, 83, 84, 85, 100, 116, 117,
      118, 143 }

\* reciprocal bearings TS -> OS around the boundaries 112.5 and 247.5
COLREG_reciprocal == { 44, 45, 46, 72, 98, 99, 100 }

COLREG_OS_nu == { <<0, 0>>, <<50, 0>>, <<50, -4>>, <<50, 4>> }

COLREG_TS_V == { 0, 30, 48, 50, 60 }

\* own-ship heading that gives relative bearing b to the target at p
COLREG_OS(p, b, nu) ==
    Vessel(4000, 4000, angle_to_2pi(bng_abs(4000, 4000, p[1], p[2]) - b), nu[1], nu[2], 0)

InitCOLREG ==
    /\ IdleOutputs
    /\ \E p \in COLREG_TS_positions, c \in COLREG_inters,
          nu \in COLREG_OS_nu, vts \in COLREG_TS_V :
          \/ \E b \in COLREG_bearings :
                /\ OS = COLREG_OS(p, b, nu)
                /\ TSs = << Vessel(p[1], p[2], angle_to_2pi(OS.psi + c), vts, 0, 0) >>
          \/ \E q \in COLREG_reciprocal :
                \* bng_TS = bng_OS + pi - C_T
                /\ OS = COLREG_OS(p, angle_to_2pi(q + c - Pi), nu)
                /\ TSs = << Vessel(p[1], p[2], angle_to_2pi(OS.psi + c), vts, 0, 0) >>
    /\ goal = [N |-> 7200, E |-> 4000]
    /\ TS_COLREGs = << 0 >>
    /\ TS_COLREGs_old = << 0 >>
    /\ respawn_flags = << FALSE >>
    /\ step_cnt = 0
    /\ spawned = {}
    /\ depth = 0
    /\ kv = Idle_kv
    /\ ret = Idle_ret
    /\ hhos = Idle_hhos
    /\ env = Idle_env
    /\ op = "init"

\* self._set_COLREGs()
SetCOLREGsCall ==
    /\ TS_COLREGs_old' = set_COLREGs(OS, TSs, TS_COLREGs).old
    /\ TS_COLREGs' = set_COLREGs(OS, TSs, TS_COLREGs).new
    /\ op' = "set_COLREGs"
    /\ UNCHANGED <<OS, goal, TSs, respawn_flags, step_cnt, spawned, depth, kv, ret, hhos, env, outs>>

NextCOLREG == SetCOLREGsCall

SpecCOLREG == InitCOLREG /\ [][NextCOLREG]_vars

(***************************************************************************)
(* Properties                                                              *)
(***************************************************************************)
\* the situations are current: _set_COLREGs ran on the present geometry
Classified == op = "set_COLREGs"

InSight(i) == EDsq(OS.N, OS.E, TSs[i].N, TSs[i].E) <= Sq(sight)

\* relative bearing OS -> TS i in [0, 360), in tenths of a degree
BngDeg(i) == rtd(bng_rel(OS.N, OS.E, TSs[i].N, TSs[i].E, OS.psi))

\* relative bearing OS -> TS i in [-180, 180)
BngDegPi(i) == rtd(angle_to_pi(bng_rel(OS.N, OS.E, TSs[i].N, TSs[i].E, OS.psi)))

\* reciprocal relative bearing TS i -> OS in [0, 360)
RecBngDeg(i) == rtd(bng_rel(TSs[i].N, TSs[i].E, OS.N, OS.E, TSs[i].psi))

\* intersection angle in [0, 360) and wrapped to [-180, 180)
InterDeg(i) == rtd(head_inter(OS.psi, TSs[i].psi))

InterDegPi(i) == rtd(angle_to_pi(head_inter(OS.psi, TSs[i].psi)))

\* own-ship speed projected on the course of TS i exceeds the speed of TS i
OSFaster(i) ==
    V_proj(OS.V, angle_to_2pi(OS.psi + OS.slip), angle_to_2pi(TSs[i].psi + TSs[i].slip))
        > 1000 * TSs[i].V

\* the literal windows of the specification
WinHeadOn(i) ==
    -50 <= BngDegPi(i) /\ BngDegPi(i) <= 50 /\ 1750 <= InterDeg(i) /\ InterDeg(i) <= 1850

WinStarSmall(i) ==
    50 < BngDeg(i) /\ BngDeg(i) <= 450 /\ 1850 < InterDeg(i) /\ InterDeg(i) <= 2100

WinStarLarge(i) ==
    450 < BngDeg(i) /\ BngDeg(i) <= 1125 /\ 2100 < InterDeg(i) /\ InterDeg(i) <= 2925

WinPortside(i) ==
    2475 <= BngDeg(i) /\ BngDeg(i) <= 3550 /\ 675 <= InterDeg(i) /\ InterDeg(i) <= 1750

WinOvertaking(i) ==
    /\ 1125 <= RecBngDeg(i) /\ RecBngDeg(i) <= 2475
    /\ -675 <= InterDegPi(i) /\ InterDegPi(i) <= 675
    /\ OSFaster(i)

\* starboard-crossing-small with both lower bounds closed
WinStarSmallClosed(i) ==
    50 <= BngDeg(i) /\ BngDeg(i) <= 450 /\ 1850 <= InterDeg(i) /\ InterDeg(i) <= 2100

\* the two boundary strips of starboard-crossing-small the literal window leaves out
StarSmallEdge(i) ==
    \/ BngDeg(i) = 50 /\ 1850 < InterDeg(i) /\ InterDeg(i) <= 2100
    \/ 50 < BngDeg(i) /\ BngDeg(i) <= 450 /\ InterDeg(i) = 1850

InWindow(sit, i) ==
    CASE sit = 1 -> WinHeadOn(i)
      [] sit = 2 -> WinStarSmall(i)
      [] sit = 3 -> WinStarLarge(i)
      [] sit = 4 -> WinPortside(i)
      [] sit = 5 -> WinOvertaking(i)
      [] OTHER   -> TRUE

InWindowClosed(sit, i) == IF sit = 2 THEN WinStarSmallClosed(i) ELSE InWindow(sit, i)

\* C3 (as stated): a non-zero situation is returned only inside the literal
\* window of that situation; on the two boundary strips bearing = 5 deg with
\* intersection in (185, 210] and bearing in (5, 45] with intersection = 185 deg
\* the result is none.
C3_OnlyLiteralWindows ==
    Classified =>
        \A i \in DOMAIN TSs :
            /\ TS_COLREGs[i] # 0 => InSight(i) /\ InWindow(TS_COLREGs[i], i)
            /\ InSight(i) /\ StarSmallEdge(i) => TS_COLREGs[i] = 0

\* C3 (amended): a non-zero situation is returned only for a target in sight
\* and inside the window of that situation, where the starboard-crossing-small
\* window is closed at its lower bounds, [5, 45] x [185, 210]; on the two
\* boundary strips the result is starboard-crossing-small.
C3_OnlyClosedWindows ==
    Classified =>
        \A i \in DOMAIN TSs :
            /\ TS_COLREGs[i] # 0 => InSight(i) /\ InWindowClosed(TS_COLREGs[i], i)
            /\ InSight(i) /\ StarSmallEdge(i) => TS_COLREGs[i] = 2

C3_Witness ==
    /\ Classified
    /\ InSight(1) /\ BngDeg(1) = 50 /\ InterDeg(1) = 2000
    /\ TS_COLREGs[1] = 2

\* the tests of _get_COLREG_situation that the geometry of TS i satisfies
TestsMet(i) ==
    LET g == Geo(OS, TSs[i])
    IN  (IF test_head_on(g) THEN {1} ELSE {})
        \cup (IF test_starboard_small(g) THEN {2} ELSE {})
        \cup (IF test_starboard_large(g) THEN {3} ELSE {})
        \cup (IF test_portside(g) THEN {4} ELSE {})
        \cup (IF test_overtaking(g) THEN {5} ELSE {})

\* C4 (as stated): for a target in sight no geometry satisfies the tests of
\* two different situations.
C4_TestsDisjoint ==
    Classified => \A i \in DOMAIN TSs : InSight(i) => Cardinality(TestsMet(i)) <= 1

\* C4 (amended): the tests are pairwise disjoint except at two corner
\* geometries: bearing 5 deg with intersection 185 deg meets head-on and
\* starboard-crossing-small, bearing 355 deg with intersection 175 deg meets
\* head-on and portside-crossing; there head-on, tested first, is returned.
C4_TestsDisjointButCorners ==
    Classified =>
        \A i \in DOMAIN TSs :
            InSight(i) =>
                \/ Cardinality(TestsMet(i)) <= 1
                \/ /\ BngDeg(i) = 50 /\ InterDeg(i) = 1850
                   /\ TestsMet(i) = {1, 2} /\ TS_COLREGs[i] = 1
                \/ /\ BngDeg(i) = 3550 /\ InterDeg(i) = 1750
                   /\ TestsMet(i) = {1, 4} /\ TS_COLREGs[i] = 1

C4_Witness ==
    /\ Classified
    /\ InSight(1) /\ BngDeg(1) = 3550 /\ InterDeg(1) = 1750
    /\ TS_COLREGs[1] = 1

\* C5 (as stated): in sight, bearing in [247.5, 355] and intersection in
\* [67.5, 175] give portside-crossing.
C5_Portside ==
    Classified =>
        \A i \in DOMAIN TSs : InSight(i) /\ WinPortside(i) => TS_COLREGs[i] = 4

\* C5 (amended): in sight, bearing in [247.5, 355] and intersection in
\* [67.5, 175] give portside-crossing, except at bearing 355 deg with
\* intersection 175 deg, which gives head-on.
C5_PortsideButCorner ==
    Classified =>
        \A i \in DOMAIN TSs :
            InSight(i) /\ WinPortside(i) =>
                IF BngDeg(i) = 3550 /\ InterDeg(i) = 1750
                THEN TS_COLREGs[i] = 1
                ELSE TS_COLREGs[i] = 4

C5_Witness ==
    /\ Classified
    /\ InSight(1) /\ BngDeg(1) = 2475 /\ InterDeg(1) = 675
    /\ TS_COLREGs[1] = 4

\* C6: in sight, reciprocal bearing in [112.5, 247.5], wrapped intersection
\* in [-67.5, 67.5] and projected own-ship speed above the target's speed
\* give overtaking, whatever the bearing OS -> TS; overtaking is never
\* returned when the projected speed does not exceed the target's speed.
C6_Overtaking ==
    Classified =>
        \A i \in DOMAIN TSs :
            /\ InSight(i) /\ WinOvertaking(i) => TS_COLREGs[i] = 5
            /\ TS_COLREGs[i] = 5 => OSFaster(i)

C6_Witness ==
    /\ Classified
    /\ InSight(1) /\ WinOvertaking(1)
    /\ RecBngDeg(1) = 2475 /\ InterDegPi(1) = -675
    /\ TS_COLREGs[1] = 5

\* C7: in sight, the literal windows of head-on, starboard-crossing-small and
\* starboard-crossing-large give situations 1, 2 and 3.
C7_HeadOnStarboard ==
    Classified =>
        \A i \in DOMAIN TSs :
            InSight(i) =>
                /\ WinHeadOn(i) => TS_COLREGs[i] = 1
                /\ WinStarSmall(i) => TS_COLREGs[i] = 2
                /\ WinStarLarge(i) => TS_COLREGs[i] = 3

C7_Witness ==
    /\ Classified
    /\ InSight(1) /\ WinStarLarge(1)
    /\ BngDeg(1) = 1125 /\ InterDeg(1) = 2925
    /\ TS_COLREGs[1] = 3

(***************************************************************************)
(* Specification SpecHeading: the operations that store a heading, called  *)
(* in any order on a KVLCC2 vessel and on a FossenEnv after reset          *)
(***************************************************************************)
\* largest yaw rate of the KVLCC2 vessel: MaxYaw angle steps per 2 ticks
MaxYaw == 3

\* HHOS_PathPlanning_Env.d_head_scale = dtr(10.0)
d_head_scale == dtr(100)

\* the actions a handed to _manual_heading_control, in quarters
HeadingActions == -5..5

\* the part of KVLCC2._upd_dynamics that advances the heading: trapezoidal
\* integration of the yaw rate over delta_t, then the wrap to [0, 2 pi)
KVLCC2_upd_dynamics_unwrapped(k, r_new) ==
    [k EXCEPT !.psi = k.psi + k.r + r_new, !.r = r_new]

KVLCC2_upd_dynamics(k, r_new) ==
    [k EXCEPT !.psi = angle_to_2pi(k.psi + k.r + r_new), !.r = r_new]

\* HHOS_PathPlanning_Env._manual_heading_control(vessel, a) for a = a4 / 4
manual_heading_control(k, a4) ==
    [k EXCEPT !.psi = angle_to_2pi(k.psi + (a4 * d_head_scale) \div 4)]

InitHeading ==
    /\ IdleOutputs
    /\ \E sit \in ResetSituations :
       \E head \in sit.heads :
          /\ OS = Vessel(sit.N_init, sit.E_init, head, u_from_tau_u(3), 0, 0)
          /\ goal = sit.goal
    /\ TSs = <<>>
    /\ TS_COLREGs = <<>>
    /\ TS_COLREGs_old = <<>>
    /\ respawn_flags = <<>>
    /\ step_cnt = 0
    /\ spawned = {}
    /\ depth = 0
    /\ kv \in { [Idle_kv EXCEPT !.psi = h] : h \in {0, 1, Pi, TwoPi - 1} }
    /\ ret = Idle_ret
    /\ hhos = Idle_hhos
    /\ env = Idle_env
    /\ op = "init"

UpdDynamicsCall ==
    /\ \E r_new \in -MaxYaw..MaxYaw : kv' = KVLCC2_upd_dynamics(kv, r_new)
    /\ op' = "upd_dynamics"
    /\ UNCHANGED <<OS, goal, TSs, TS_COLREGs, TS_COLREGs_old, respawn_flags,
                   step_cnt, spawned, depth, ret, hhos, env, outs>>

ManualHeadingControlCall ==
    /\ \E a4 \in HeadingActions :
          IF -4 <= a4 /\ a4 <= 4
          THEN /\ kv' = manual_heading_control(kv, a4)
               /\ op' = "manual_heading_control"
          ELSE /\ kv' = kv
               /\ op' = "AssertionError"
    /\ UNCHANGED <<OS, goal, TSs, TS_COLREGs, TS_COLREGs_old, respawn_flags,
                   step_cnt, spawned, depth, ret, hhos, env, outs>>

GetTSCall ==
    /\ \E c \in get_TS(OS, goal, TSs) : ret' = Result(c, TRUE)
    /\ op' = "get_TS"
    /\ UNCHANGED <<OS, goal, TSs, TS_COLREGs, TS_COLREGs_old, respawn_flags,
                   step_cnt, spawned, depth, kv, hhos, env, outs>>

NextHeading == UpdDynamicsCall \/ ManualHeadingControlCall \/ GetTSCall

SpecHeading == InitHeading /\ [][NextHeading]_vars

(***************************************************************************)
(* Specification SpecControl: KVLCC2._control and KVLCC2._upd_dynamics     *)
(* called in any order on a vessel as constructed                          *)
(***************************************************************************)
\* KVLCC2.rud_angle_max = dtr(10)
rud_angle_max == dtr(100)

\* KVLCC2.rud_angle_inc = dtr(2.5)
rud_angle_inc == dtr(25)

\* the actions handed to _control; 3 is outside range(3)
ControlActions == 0..3

\* KVLCC2._control(a) for a in range(3)
KVLCC2_control_unclamped(k, a) ==
    [k EXCEPT !.action = a,
              !.rud_angle = CASE a = 0 -> k.rud_angle
                              [] a = 1 -> k.rud_angle + rud_angle_inc
                              [] a = 2 -> k.rud_angle - rud_angle_inc]

KVLCC2_control(k, a) ==
    [k EXCEPT !.action = a,
              !.rud_angle = Clip(CASE a = 0 -> k.rud_angle
                                   [] a = 1 -> k.rud_angle + rud_angle_inc
                                   [] a = 2 -> k.rud_angle - rud_angle_inc,
                                 -rud_angle_max, rud_angle_max)]

InitControl ==
    /\ IdleOutputs
    /\ OS = Vessel(0, 0, 0, 0, 0, 0)
    /\ goal = [N |-> 0, E |-> 0]
    /\ TSs = <<>>
    /\ TS_COLREGs = <<>>
    /\ TS_COLREGs_old = <<>>
    /\ respawn_flags = <<>>
    /\ step_cnt = 0
    /\ spawned = {}
    /\ depth = 0
    /\ kv \in { [Idle_kv EXCEPT !.psi = h] : h \in {0, Pi} }
    /\ ret = Idle_ret
    /\ hhos = Idle_hhos
    /\ env = Idle_env
    /\ op = "init"

ControlCall ==
    /\ \E a \in ControlActions :
          IF a \in 0..2
          THEN /\ kv' = KVLCC2_control(kv, a)
               /\ op' = "control"
          ELSE /\ kv' = kv
               /\ op' = "AssertionError"
    /\ UNCHANGED <<OS, goal, TSs, TS_COLREGs, TS_COLREGs_old, respawn_flags,
                   step_cnt, spawned, depth, ret, hhos, env, outs>>

NextControl == ControlCall \/ UpdDynamicsCall

SpecControl == InitControl /\ [][NextControl]_vars

(***************************************************************************)
(* Specification SpecRespawn: one call of _handle_respawn with any         *)
(* combination of its policy flags on the single target of the fleet       *)
(***************************************************************************)
\* positions of the target: inside the map, on and beyond each boundary
Respawn_TS_positions ==
    { <<4000, 4400>>, <<N_max, 3000>>, <<N_max + 20, 3000>>, <<0, 5000>>,
      <<-20, 5000>>, <<3000, E_max>>, <<3000, E_max + 20>>, <<5000, 0>>,
      <<5000, -20>>, <<N_max + 20, E_max + 20>> }

\* headings of the target
Respawn_TS_headings == { 0, 1, Pi \div 2, Pi - 1, Pi, Pi + 1, (3 * Pi) \div 2, TwoPi - 1 }

\* positions of the own ship on its way north to the goal
Respawn_OS_positions == { <<3000, 4000>>, <<5600, 4000>> }

\* the name under which a call is recorded
PolicyName(respawn, mirrow, clip) ==
    IF BoolInt(respawn) + BoolInt(mirrow) + BoolInt(clip) > 1 THEN "AssertionError"
    ELSE IF respawn THEN "handle_respawn(respawn)"
    ELSE IF mirrow THEN "handle_respawn(mirrow)"
    ELSE IF clip THEN "handle_respawn(clip)"
    ELSE "handle_respawn()"

InitRespawn ==
    /\ IdleOutputs
    /\ \E p \in Respawn_OS_positions : OS = Vessel(p[1], p[2], 0, u_from_tau_u(3), 0, 0)
    /\ goal = [N |-> (9 * N_max) \div 10, E |-> E_max \div 2]
    /\ \E q \in Respawn_TS_positions :
       \E h \in Respawn_TS_headings :
          TSs = << Vessel(q[1], q[2], h, u_from_tau_u(3), 0, 0) >>
    /\ TS_COLREGs = <<0>>
    /\ TS_COLREGs_old = <<0>>
    /\ respawn_flags = <<FALSE>>
    /\ step_cnt = 1
    /\ spawned = {}
    /\ depth = 0
    /\ kv = Idle_kv
    /\ ret = Idle_ret
    /\ hhos = Idle_hhos
    /\ env = Idle_env
    /\ op = "init"

\* the vessels are objects: the mirrored heading and the clipped position are
\* written to the vessel that was handed in
HandleRespawnCall ==
    /\ op = "init"
    /\ \E respawn \in BOOLEAN, mirrow \in BOOLEAN, clip \in BOOLEAN :
          /\ ret' \in handle_respawn(OS, goal, TSs, TSs[1], respawn, mirrow, clip)
          /\ op' = PolicyName(respawn, mirrow, clip)
    /\ TSs' = IF ret'.flag THEN TSs ELSE << ret'.TS >>
    /\ UNCHANGED <<OS, goal, TS_COLREGs, TS_COLREGs_old, respawn_flags,
                   step_cnt, spawned, depth, kv, hhos, env, outs>>

NextRespawn == HandleRespawnCall

SpecRespawn == InitRespawn /\ [][NextRespawn]_vars

(***************************************************************************)
(* Specification SpecHHOS: HHOS_PathPlanning_Env.step and _done.  What the *)
(* step does to the cross-track error glo_ye (metres) and to the own       *)
(* ship's three active waypoints of the global path is drawn: the          *)
(* waypoints are consecutive and never move back.                          *)
(***************************************************************************)
HHOS_max_episode_steps == 50

\* the bound on abs(glo_ye), metres
HHOS_ye_bound == 1000

\* cross-track errors on both sides of the bound
HHOS_glo_yes == { -1001, -1000, 0, 1000, 1001 }

\* numbers of waypoints of the global path
HHOS_n_wps == { 10, 15 }

\* int(0.9 * n_wps_glo)
HHOS_last_wp(n) == (9 * n) \div 10

HHOS_done_final_wp(h) ==
    IF Abs(h.glo_ye) > HHOS_ye_bound THEN TRUE
    ELSE IF \E i \in {h.glo_wp1_idx, h.glo_wp2_idx, h.glo_wp3_idx} : i >= h.n_wps_glo - 1
         THEN TRUE
    ELSE IF h.step_cnt >= HHOS_max_episode_steps THEN TRUE
    ELSE FALSE

\* HHOS_PathPlanning_Env._done
HHOS_done(h) ==
    IF Abs(h.glo_ye) > HHOS_ye_bound THEN TRUE
    ELSE IF \E i \in {h.glo_wp1_idx, h.glo_wp2_idx, h.glo_wp3_idx} :
               i >= HHOS_last_wp(h.n_wps_glo)
         THEN TRUE
    ELSE IF h.step_cnt >= HHOS_max_episode_steps THEN TRUE
    ELSE FALSE

\* the own ship with waypoints w, w + 1, w + 2 active
HHOS_wps(h, w) ==
    [h EXCEPT !.glo_wp1_idx = w, !.glo_wp2_idx = w + 1, !.glo_wp3_idx = w + 2]

\* after reset(): step_cnt is 0, the own ship is on the path
InitHHOS ==
    /\ OS = Vessel(0, 0, 0, 0, 0, 0)
    /\ goal = [N |-> 0, E |-> 0]
    /\ TSs = <<>>
    /\ TS_COLREGs = <<>>
    /\ TS_COLREGs_old = <<>>
    /\ respawn_flags = <<>>
    /\ step_cnt = 0
    /\ spawned = {}
    /\ depth = 0
    /\ kv = Idle_kv
    /\ ret = Idle_ret
    /\ IdleOutputs
    /\ \E n \in HHOS_n_wps : \E w \in 0..(n - 3) :
          hhos = HHOS_wps([Idle_hhos EXCEPT !.n_wps_glo = n], w)
    /\ env = Idle_env
    /\ op = "hhos_reset"

\* step(a): waypoints and cross-track error are updated, step_cnt is
\* increased, then _done is evaluated
HHOS_Step ==
    /\ hhos.step_cnt <= HHOS_max_episode_steps
    /\ \E ye \in HHOS_glo_yes :
       \E w \in hhos.glo_wp1_idx..Min2(hhos.glo_wp1_idx + 1, hhos.n_wps_glo - 3) :
          LET h == [HHOS_wps(hhos, w) EXCEPT !.glo_ye = ye, !.step_cnt = hhos.step_cnt + 1]
          IN  hhos' = [h EXCEPT !.d = HHOS_done(h)]
    /\ op' = "hhos_step"
    /\ UNCHANGED <<OS, goal, TSs, TS_COLREGs, TS_COLREGs_old, respawn_flags,
                   step_cnt, spawned, depth, kv, ret, env, outs>>

NextHHOS == HHOS_Step

SpecHHOS == InitHHOS /\ [][NextHHOS]_vars

(***************************************************************************)
(* Properties of the episode (specification Spec)                          *)
(***************************************************************************)
Stepped == op = "step"

FarFromGoal(os) == EDsq(os.N, os.E, goal.N, goal.E) > Sq(stop_spawn_dist)

TooClose(i, j) == EDsq(TSs[i].N, TSs[i].E, TSs[j].N, TSs[j].E) < Sq(min_dist_spawn_TS)

\* C1: after a reset or a step, every vessel that _get_TS returned in it lies
\* at least min_dist_spawn_TS (20 m) from every other target of the fleet,
\* the other vessels spawned in the same reset or step included.
C1_MinSeparation ==
    \A i \in spawned : \A j \in DOMAIN TSs : j # i => ~TooClose(i, j)

\* the targets of the current state after their dynamics update
MovedTSs == [i \in DOMAIN TSs |-> upd_dynamics(TSs[i], TSs[i].r)]

\* off the map, or TCPA below -0.1 * TCPA_crit or above 1.25 * TCPA_crit
LeftEncounter(os, ts) ==
    \/ ts.N <= 0 \/ ts.N >= N_max \/ ts.E <= 0 \/ ts.E >= E_max
    \/ tcpa_below(os, ts, -(TCPA_crit \div 10))
    \/ tcpa_above(os, ts, (5 * TCPA_crit) \div 4)

Replaced(i) ==
    /\ respawn_flags'[i]
    /\ TSs'[i] \in get_TS(OS', goal, MovedTSs)

Kept(i) ==
    /\ ~respawn_flags'[i]
    /\ TSs'[i] = MovedTSs[i]

\* C2: in every step, wherever the own ship is, each target that after its
\* dynamics update is off the map or has a TCPA below -0.1 * TCPA_crit or
\* above 1.25 * TCPA_crit is replaced by a fresh vessel and flagged True;
\* every other target is kept and flagged False.
C2_RespawnEveryStep ==
    [][op' = "step" =>
         \A i \in DOMAIN TSs :
            IF LeftEncounter(OS', MovedTSs[i]) THEN Replaced(i) ELSE Kept(i)]_vars

\* C2 (amended): that holds in the steps in which the own ship, after its
\* update, is farther than stop_spawn_dist (50 m) from the goal; in the other
\* steps every target is kept and flagged False.
C2_RespawnFarFromGoal ==
    [][op' = "step" =>
         \A i \in DOMAIN TSs :
            IF FarFromGoal(OS') /\ LeftEncounter(OS', MovedTSs[i])
            THEN Replaced(i)
            ELSE Kept(i)]_vars

\* a step far from the goal has replaced target 1 and kept target 2
C2_Witness ==
    /\ Stepped
    /\ FarFromGoal(OS)
    /\ Len(TSs) = 2
    /\ respawn_flags[1] /\ 1 \in spawned
    /\ ~respawn_flags[2]

\* C8: after every reset and every step the situation stored for a target
\* farther than the sight radius (100 m) from the own ship is none (0),
\* whatever its bearings, intersection angle and speed.
C8_OutOfSightNone ==
    op \in {"reset", "step"} =>
        \A i \in DOMAIN TSs : ~InSight(i) => TS_COLREGs[i] = 0

\* a step has left a target out of sight whose angles are those of a head-on
\* encounter
C8_Witness ==
    /\ Stepped
    /\ \E i \in DOMAIN TSs : ~InSight(i) /\ WinHeadOn(i) /\ TS_COLREGs[i] = 0

(***************************************************************************)
(* Properties of the stored headings (SpecHeading, SpecRespawn)            *)
(***************************************************************************)
Normalized(psi) == 0 <= psi /\ psi < TwoPi

\* C9: the heading stored by KVLCC2._upd_dynamics, by
\* _manual_heading_control with an action in [-1, 1] and in every vessel
\* returned by _get_TS lies in [0, 2 pi), for any sequence of these
\* operations from a heading in [0, 2 pi).
C9_HeadingNormalized ==
    /\ op \in {"upd_dynamics", "manual_heading_control"} => Normalized(kv.psi)
    /\ op = "get_TS" => Normalized(ret.TS.psi)

\* _upd_dynamics has turned the vessel to port through north
C9_Witness ==
    /\ op = "upd_dynamics"
    /\ kv.r < 0
    /\ kv.psi = TwoPi + 2 * kv.r

\* C10: after _handle_respawn(TS, respawn=False, mirrow=True) the heading of
\* the vessel lies in [0, 2 pi), for every incoming heading in [0, 2 pi) and
\* either boundary axis.
C10_MirrorNormalized ==
    op = "handle_respawn(mirrow)" => Normalized(ret.TS.psi)

(***************************************************************************)
(* Properties of the rudder (SpecControl)                                  *)
(***************************************************************************)
\* the rudder angle the contract asks for after action a from angle rud
RudderAfter(rud, a) ==
    IF a = 1
    THEN (IF rud + rud_angle_inc <= rud_angle_max THEN rud + rud_angle_inc ELSE rud_angle_max)
    ELSE IF a = 2
    THEN (IF rud - rud_angle_inc >= -rud_angle_max THEN rud - rud_angle_inc ELSE -rud_angle_max)
    ELSE rud

\* C11: from rudder angle 0 and after any sequence of _control calls with
\* actions in {0, 1, 2} the rudder angle lies in [-rud_angle_max,
\* rud_angle_max]; action 0 keeps it, action 1 adds rud_angle_inc and action 2
\* subtracts rud_angle_inc, except where the clamp applies.
C11_RudderClamped ==
    /\ [](-rud_angle_max <= kv.rud_angle /\ kv.rud_angle <= rud_angle_max)
    /\ [][op' = "control" => kv'.rud_angle = RudderAfter(kv.rud_angle, kv'.action)]_vars

\* action 1 was taken at the upper limit and the rudder stayed there
C11_Witness ==
    /\ op = "control"
    /\ kv.action = 1
    /\ kv.rud_angle = rud_angle_max

(***************************************************************************)
(* Properties of termination and reward (specification Spec)               *)
(***************************************************************************)
GoalReached == EDsq(OS.N, OS.E, goal.N, goal.E) <= Sq(goal_reach_dist)

BudgetExhausted == step_cnt >= max_episode_steps

Collided(i) == EDsq(OS.N, OS.E, TSs[i].N, TSs[i].E) <= Sq(coll_dist)

\* C15: step returns done = True exactly when the own ship is within
\* goal_reach_dist (10 m) of the goal or step_cnt has reached
\* _max_episode_steps (500); a collision alone does not end the episode.
C15_DoneExactly ==
    Stepped => (done <=> (GoalReached \/ BudgetExhausted))

\* a step has brought a target within the collision distance and returned
\* done = False
C15_Witness ==
    /\ Stepped
    /\ \E i \in DOMAIN TSs : Collided(i)
    /\ ~GoalReached /\ ~BudgetExhausted
    /\ ~done

\* C17: reset sets step_cnt (and sim_t) to 0, every step adds exactly 1 to
\* step_cnt (and delta_t to sim_t), and every step that leaves step_cnt at
\* 500 or more returns done = True, whatever the actions were.
C17_StepCap ==
    /\ [](op = "reset" => step_cnt = 0 /\ sim_t = 0)
    /\ [][op' = "step" => step_cnt' = step_cnt + 1 /\ sim_t' = sim_t + 1]_vars
    /\ [](Stepped /\ step_cnt >= max_episode_steps => done)

\* the step after the 500th has returned done = True far from the goal
C17_Witness ==
    /\ Stepped
    /\ step_cnt = max_episode_steps + 1
    /\ ~GoalReached
    /\ done

\* C18: the collision term is -10 times the number of targets at no more
\* than coll_dist (6.275 m) from the own ship; a target exactly at coll_dist
\* counts, a target farther away does not.
C18_CollisionTerm ==
    Stepped => r_coll = -10 * Cardinality({ i \in DOMAIN TSs : Collided(i) })

\* one target exactly at the collision distance, another beyond it
C18_Witness ==
    /\ Stepped
    /\ Len(TSs) = 2
    /\ EDsq(OS.N, OS.E, TSs[1].N, TSs[1].E) = Sq(coll_dist)
    /\ ~Collided(2)
    /\ r_coll = -10

\* target i is in sight, closing (TCPA >= 0), and the own ship turns to port
\* in a head-on or starboard-crossing-small situation or to starboard in a
\* starboard-crossing-large situation
SteersAgainst(i) ==
    /\ InSight(i)
    /\ tcpa_nonneg(OS, TSs[i])
    /\ \/ TS_COLREGs[i] \in {1, 2} /\ OS.r < 0
       \/ TS_COLREGs[i] = 3 /\ OS.r > 0

\* C19: the COLREG term is -3 times the number of targets that were not
\* respawned in this step and against which the own ship steers; a target
\* whose respawn flag is set never contributes.
C19_COLREGTerm ==
    Stepped =>
        r_COLREG = -3 * Cardinality({ i \in DOMAIN TSs : ~respawn_flags[i] /\ SteersAgainst(i) })

\* the step has respawned a target into a situation the own ship steers
\* against, and the term is 0
C19_Witness ==
    /\ Stepped
    /\ \E i \in DOMAIN TSs : respawn_flags[i] /\ SteersAgainst(i)
    /\ r_COLREG = 0

\* the own ship turns to port against a head-on target that was not respawned
C19_WitnessPenalty ==
    /\ Stepped
    /\ \E i \in DOMAIN TSs : ~respawn_flags[i] /\ SteersAgainst(i) /\ TS_COLREGs[i] = 1
    /\ r_COLREG = -3

(***************************************************************************)
(* Properties of the policy flags of _handle_respawn (SpecRespawn)         *)
(***************************************************************************)
\* C20: a call of _handle_respawn with more than one of respawn, mirrow and
\* clip set fails before it replaces, mirrors or clips anything: the vessel
\* handed in and the target list are as before the call.
C20_FlagsRejected ==
    [][op' = "AssertionError" =>
         /\ ret'.error /\ ~ret'.flag
         /\ ret'.TS = TSs[1]
         /\ TSs' = TSs]_vars

\* the call was rejected for a vessel beyond the northern boundary while the
\* own ship is far from the goal, where each single policy would have acted
C20_Witness ==
    /\ op = "AssertionError"
    /\ ret.error
    /\ FarFromGoal(OS)
    /\ TSs[1].N > N_max
    /\ TSs[1].psi = Pi + 1

(***************************************************************************)
(* Properties of the observation (specification Spec)                      *)
(***************************************************************************)
Observed == op \in {"reset", "step"}

InSightSet == { i \in DOMAIN TSs : InSight(i) }

NumInSight == Cardinality(InSightSet)

\* the p-th block of num_obs_TS entries behind the own-ship and goal entries
Slot(p) == SubSeq(state, num_obs_OS + num_obs_TS * (p - 1) + 1, num_obs_OS + num_obs_TS * p)

NumSlots == (Len(state) - num_obs_OS) \div num_obs_TS

\* the block of features the observation should carry for target i
BlockOf(i) == TS_features(OS, TSs, TS_COLREGs, i)

\* risk ratio (distance / ship domain) of target i at most that of target j
RiskLeq(i, j) ==
    ED(OS.N, OS.E, TSs[i].N, TSs[i].E) * get_ship_domain(OS, TSs[j])
        <= ED(OS.N, OS.E, TSs[j].N, TSs[j].E) * get_ship_domain(OS, TSs[i])

\* the in-sight targets of smallest risk ratio
NearestDanger == { i \in InSightSet : \A j \in InSightSet : RiskLeq(i, j) }

\* C12: after reset and after every step the observation has
\* num_obs_OS + N_TSs_max * num_obs_TS entries in the RecDQN design and
\* num_obs_OS + num_obs_TS in the maxRisk design, whatever the number of
\* targets and of targets in sight; in RecDQN every slot behind those of the
\* targets in sight holds NaN.
C12_FixedLength ==
    Observed =>
        IF state_design = "RecDQN"
        THEN /\ Len(state) = num_obs_OS + N_TSs_max * num_obs_TS
             /\ \A k \in (num_obs_OS + num_obs_TS * NumInSight + 1)..Len(state) :
                   state[k] = NaN
        ELSE Len(state) = num_obs_OS + num_obs_TS

\* RecDQN, two targets of which one is in sight
C12_Witness ==
    /\ Stepped
    /\ state_design = "RecDQN"
    /\ Len(TSs) = 2
    /\ NumInSight = 1
    /\ state[num_obs_OS + 1] # NaN
    /\ state[num_obs_OS + num_obs_TS + 1] = NaN

\* the slots that hold the block of a nearest-danger target
NearestSlots == { p \in 1..NumSlots : \E i \in NearestDanger : Slot(p) = BlockOf(i) }

\* C13: the nearest-danger target occupies the same slot in every
\* observation that has a target in sight, however many are in sight: from
\* one observation to the next its slot does not change.
C13_StableSlot ==
    [][Observed /\ Observed' /\ NumInSight > 0 /\ NumInSight' > 0
          => NearestSlots \cap NearestSlots' # {}]_vars

\* C13 (amended): in the RecDQN design the nearest-danger target occupies the
\* last slot that is not padding, slot k when k targets are in sight; in the
\* maxRisk design it occupies the only slot.
C13_LastFilledSlot ==
    Observed /\ NumInSight > 0 =>
        IF state_design = "RecDQN"
        THEN NumInSight \in NearestSlots
        ELSE 1 \in NearestSlots

\* RecDQN with two targets in sight: the nearest danger is in slot 2, not 1
C13_Witness ==
    /\ Stepped
    /\ state_design = "RecDQN"
    /\ NumInSight = 2
    /\ NearestSlots = {2}

\* slot p carries distance, relative bearing and COLREG situation of target i
Carries(p, i) ==
    /\ Slot(p)[1] = ED(OS.N, OS.E, TSs[i].N, TSs[i].E)
    /\ Slot(p)[2] = angle_to_pi(bng_rel(OS.N, OS.E, TSs[i].N, TSs[i].E, OS.psi))
    /\ Slot(p)[5] = TS_COLREGs[i]

\* the ways to assign the targets in sight to the first NumInSight slots
SlotAssignments ==
    { f \in [1..NumInSight -> InSightSet] :
         \A p, q \in 1..NumInSight : p # q => f[p] # f[q] }

\* C14: in RecDQN the blocks of the targets in sight come first, one block
\* per target, in order of non-increasing risk ratio, and NaN behind them; in
\* maxRisk the block is that of an in-sight target of smallest risk ratio;
\* every block carries the COLREG situation of the vessel whose distance and
\* bearing it carries.
C14_RiskOrder ==
    Observed /\ NumInSight > 0 =>
        IF state_design = "RecDQN"
        THEN /\ \E f \in SlotAssignments :
                  /\ \A p \in 1..NumInSight : Carries(p, f[p])
                  /\ \A p \in 1..(NumInSight - 1) : RiskLeq(f[p + 1], f[p])
             /\ \A p \in (NumInSight + 1)..NumSlots : Slot(p) = [k \in 1..num_obs_TS |-> NaN]
        ELSE \E i \in NearestDanger : Carries(1, i)

\* RecDQN, two targets in sight in different situations, the first target of
\* the list with the larger risk ratio and therefore in the first slot
C14_Witness ==
    /\ Stepped
    /\ state_design = "RecDQN"
    /\ NumInSight = 2 /\ Len(TSs) = 2
    /\ TS_COLREGs[1] # TS_COLREGs[2]
    /\ ~RiskLeq(1, 2)
    /\ Carries(1, 1)
    /\ Carries(2, 2)

(***************************************************************************)
(* Properties of HHOS_PathPlanning_Env._done (specification SpecHHOS)      *)
(***************************************************************************)
HHOS_Stepped == op = "hhos_step"

HHOS_TooFar == Abs(hhos.glo_ye) > HHOS_ye_bound

HHOS_Budget == hhos.step_cnt >= HHOS_max_episode_steps

HHOS_ActiveWps == {hhos.glo_wp1_idx, hhos.glo_wp2_idx, hhos.glo_wp3_idx}

\* an active waypoint is the final waypoint of the global path
HHOS_AtFinalWp == \E i \in HHOS_ActiveWps : i >= hhos.n_wps_glo - 1

\* an active waypoint has index int(0.9 * n_wps_glo) or more
HHOS_AtLastTenth == \E i \in HHOS_ActiveWps : i >= (9 * hhos.n_wps_glo) \div 10

IdleEpisode ==
    /\ OS = Vessel(0, 0, 0, 0, 0, 0)
    /\ goal = [N |-> 0, E |-> 0]
    /\ TSs = <<>>
    /\ TS_COLREGs = <<>>
    /\ TS_COLREGs_old = <<>>
    /\ respawn_flags = <<>>
    /\ step_cnt = 0
    /\ spawned = {}
    /\ depth = 0
    /\ kv = Idle_kv
    /\ ret = Idle_ret
    /\ hhos = Idle_hhos
    /\ IdleOutputs

episode == <<OS, goal, TSs, TS_COLREGs, TS_COLREGs_old, respawn_flags, step_cnt,
             spawned, depth, kv, ret, hhos, outs>>

\* steps modelled behind each threshold of the N_TSs_increasing schedule
MaxOuterSteps == 2

\* the arguments FossenEnv is constructed with
FossenArgs ==
    [ N_TSs_max : {0, 2, 3}, N_TSs_random : BOOLEAN, N_TSs_increasing : BOOLEAN,
      cnt_approach : {"tau", "f123", "rps_angle", "nps"},
      state_design : {"maxRisk", "RecDQN", "recursive"} ]

\* the object before and after FossenEnv.__init__(a)
FossenEnv_new(a) ==
    [ cls |-> "FossenEnv", N_TSs_max |-> a.N_TSs_max, N_TSs_random |-> a.N_TSs_random,
      N_TSs_increasing |-> a.N_TSs_increasing, cnt_approach |-> a.cnt_approach,
      state_design |-> a.state_design, outer_step_cnt |-> 0, N_TSs |-> 0,
      constructed |-> FALSE, action_space |-> FALSE, error |-> "none" ]

FossenEnv_init(e) ==
    IF BoolInt(e.N_TSs_random) + BoolInt(e.N_TSs_increasing) > 1
    THEN [e EXCEPT !.error = "AssertionError"]
    ELSE IF e.state_design \notin {"maxRisk", "RecDQN"}
    THEN [e EXCEPT !.error = "AssertionError"]
    ELSE [e EXCEPT !.constructed = TRUE,
                   !.action_space = (e.cnt_approach \in {"tau", "rps_angle", "f123"})]

\* the schedule of reset() on outer_step_cnt
N_TSs_schedule(c) ==
    IF c <= 1000000 THEN 0
    ELSE IF c <= 2000000 THEN 1
    ELSE IF c <= 3000000 THEN 2
    ELSE 3

\* _set_state with k targets in sight: np.pad fails on a negative width
FossenEnv_set_state(e, k) ==
    IF e.state_design = "RecDQN" /\ k > 0
          /\ num_obs_TS * e.N_TSs_max - num_obs_TS * k < 0
    THEN [e EXCEPT !.error = "ValueError"]
    ELSE e

\* reset(): the own ship is built from tau_u, f2 and f23_sum, which only the
\* "tau" and "f123" branches assign; m is the draw of np.random.choice
FossenEnv_reset(e, m, k) ==
    IF e.cnt_approach \notin {"tau", "f123"}
    THEN [e EXCEPT !.error = "UnboundLocalError"]
    ELSE LET n == IF e.N_TSs_random THEN m
                  ELSE IF e.N_TSs_increasing THEN N_TSs_schedule(e.outer_step_cnt)
                  ELSE e.N_TSs_max
         IN  FossenEnv_set_state([e EXCEPT !.N_TSs = n], Min2(k, n))

\* step(a)
FossenEnv_step(e, k) ==
    FossenEnv_set_state(
        IF e.N_TSs_increasing THEN [e EXCEPT !.outer_step_cnt = e.outer_step_cnt + 1] ELSE e,
        Min2(k, e.N_TSs))

\* the arguments HHOS_PathPlanning_Env is constructed with
HHOSArgs ==
    [ state_design : {"recursive", "conventional", "RecDQN"},
      thrust_control_planner : BOOLEAN, N_TSs_max : {0, 2} ]

HHOS_new(a) ==
    [ cls |-> "HHOS_PathPlanning_Env", state_design |-> a.state_design,
      thrust_control_planner |-> a.thrust_control_planner, N_TSs_max |-> a.N_TSs_max,
      constructed |-> FALSE, action_space |-> FALSE, error |-> "none" ]

HHOS_init(e) ==
    IF e.state_design \notin {"recursive", "conventional"}
    THEN [e EXCEPT !.error = "AssertionError"]
    ELSE [e EXCEPT !.constructed = TRUE, !.action_space = TRUE]

\* HHOS_PathPlanning_Env._set_state
HHOS_set_state(e) ==
    IF e.state_design = "recursive"
    THEN [e EXCEPT !.error = "NotImplementedError"]
    ELSE IF e.N_TSs_max = 0
    THEN [e EXCEPT !.error = "ValueError"]
    ELSE e

\* the arguments drawn, or a FossenEnv that has been trained up to a
\* threshold of the schedule and whose episode began before it
InitConfig ==
    /\ IdleEpisode
    /\ \/ /\ env \in { FossenEnv_new(a) : a \in FossenArgs } \cup { HHOS_new(a) : a \in HHOSArgs }
          /\ op = "args"
       \/ /\ \E a \in FossenArgs : \E c \in {1000000, 2000000, 3000000} :
                /\ a.N_TSs_increasing /\ ~a.N_TSs_random
                /\ a.cnt_approach \in {"tau", "f123"}
                /\ a.state_design \in {"maxRisk", "RecDQN"}
                /\ N_TSs_schedule(c) <= a.N_TSs_max
                /\ env = [FossenEnv_init(FossenEnv_new(a)) EXCEPT
                              !.outer_step_cnt = c, !.N_TSs = N_TSs_schedule(c)]
          /\ op = "step"

Construct ==
    /\ op = "args"
    /\ env' = IF env.cls = "FossenEnv" THEN FossenEnv_init(env) ELSE HHOS_init(env)
    /\ op' = "init"
    /\ UNCHANGED episode

Running == env.constructed /\ env.error = "none"

FossenReset ==
    /\ Running /\ env.cls = "FossenEnv"
    /\ \E m \in 0..env.N_TSs_max : \E k \in 0..3 : env' = FossenEnv_reset(env, m, k)
    /\ op' = "reset"
    /\ UNCHANGED episode

FossenStep ==
    /\ Running /\ env.cls = "FossenEnv"
    /\ op \in {"reset", "step"}
    /\ env.outer_step_cnt % 1000000 < MaxOuterSteps
    /\ \E k \in 0..3 : env' = FossenEnv_step(env, k)
    /\ op' = "step"
    /\ UNCHANGED episode

HHOSSetState ==
    /\ Running /\ env.cls = "HHOS_PathPlanning_Env"
    /\ op = "init"
    /\ env' = HHOS_set_state(env)
    /\ op' = "set_state"
    /\ UNCHANGED episode

NextConfig == Construct \/ FossenReset \/ FossenStep \/ HHOSSetState

SpecConfig == InitConfig /\ [][NextConfig]_vars

(***************************************************************************)
(* Properties of the configuration (specification SpecConfig)              *)
(***************************************************************************)
\* C21: every cnt_approach and state_design that FossenEnv.__init__ accepts,
\* and every state_design that HHOS_PathPlanning_Env.__init__ accepts, gives
\* an environment that has an action space and whose reset, target spawning
\* and observation builder run without a configuration error.
C21_AcceptedConfigRuns ==
    env.constructed =>
        /\ env.action_space
        /\ env.error \notin {"UnboundLocalError", "NotImplementedError"}

\* C28: in every constructed FossenEnv the number of active targets is
\* between 0 and N_TSs_max after every reset and every step, and the padding
\* of the observation never has a negative length.
C28_TargetsFitSlots ==
    env.cls = "FossenEnv" /\ env.constructed =>
        /\ env.N_TSs \in 0..env.N_TSs_max
        /\ env.error # "ValueError"

(***************************************************************************)
(* Specification SpecGetTS: the loop of FossenEnv._get_TS, one pass per    *)
(* step, called while a step handles a respawn                             *)
(***************************************************************************)
\* rejected candidates after which the model stops following the loop
MaxAttempts == 3

\* own ship and fleet when _get_TS is called: the own ship on its way north,
\* no target yet, a target spawned ahead one or two ticks ago, one astern,
\* one near the northern boundary
GetTS_OS == { Vessel(n, 4000, 0, u_from_tau_u(3), 0, 0) : n \in {3000, 3025, 3050, 4000} }

GetTS_Fleets ==
    { << >>,
      << Vessel(3625, 4000, 0, 40, 0, 0) >>,
      << Vessel(3645, 4000, 0, 40, 0, 0), Vessel(1775, 4400, 72, 50, 0, 0) >>,
      << Vessel(7995, 3600, 0, 10, 0, 0) >> }

InitGetTS ==
    /\ IdleOutputs
    /\ OS \in GetTS_OS
    /\ goal = [N |-> (9 * N_max) \div 10, E |-> E_max \div 2]
    /\ TSs \in GetTS_Fleets
    /\ TS_COLREGs = <<>>
    /\ TS_COLREGs_old = <<>>
    /\ respawn_flags = <<>>
    /\ step_cnt = 1
    /\ spawned = {}
    /\ depth = 0
    /\ kv = Idle_kv
    /\ ret = Idle_ret
    /\ hhos = Idle_hhos
    /\ env = [cls |-> "FossenEnv", attempts |-> 0]
    /\ op = "get_TS"

\* one pass of 'while True': a candidate is drawn and constructed; the loop is
\* left by 'break' when the candidate is accepted and started again otherwise
GetTSPass ==
    /\ op = "get_TS"
    /\ env.attempts < MaxAttempts
    /\ \E d \in SpawnDraws :
          LET c == get_TS_candidate(OS, goal, d)
          IN  IF spawn_accepted(TSs, c)
              THEN /\ ret' = Result(c, TRUE)
                   /\ op' = "returned"
                   /\ UNCHANGED env
              ELSE /\ env' = [env EXCEPT !.attempts = env.attempts + 1]
                   /\ UNCHANGED <<ret, op>>
    /\ UNCHANGED <<OS, goal, TSs, TS_COLREGs, TS_COLREGs_old, respawn_flags,
                   step_cnt, spawned, depth, kv, hhos, outs>>

NextGetTS == GetTSPass

SpecGetTS == InitGetTS /\ [][NextGetTS]_vars

\* C22: the loop of _get_TS does not go on after a bounded number of
\* rejected candidates: a call that has rejected MaxAttempts candidates has
\* ended with a configuration error.
C22_LoopBounded ==
    env.attempts >= MaxAttempts => op = "ConfigurationError"

(***************************************************************************)
(* Specification SpecReward: the aggregation at the end of                 *)
(* _calculate_reward of both environments, on drawn reward terms and       *)
(* weights.  Terms and weights are integers (thousandths); a reward is the *)
(* fraction num / den.                                                     *)
(***************************************************************************)
RECURSIVE SumSeq(_)
SumSeq(q) == IF q = <<>> THEN 0 ELSE Head(q) + SumSeq(Tail(q))

\* weights * rews
Times(ws, rs) == [i \in 1..Len(ws) |-> ws[i] * rs[i]]

FossenEnv_reward_normalised(e) ==
    [num |-> e.w_dist * e.r_dist + e.w_head * e.r_head + e.w_coll * e.r_coll
                + e.w_COLREG * e.r_COLREG + e.w_comf * e.r_comf,
     den |-> e.w_dist + e.w_head + e.w_coll + e.w_COLREG + e.w_comf]

\* FossenEnv._calculate_reward: self.r
FossenEnv_reward(e) ==
    [num |-> e.w_dist * e.r_dist + e.w_head * e.r_head + e.w_coll * e.r_coll
                + e.w_COLREG * e.r_COLREG + e.w_comf * e.r_comf,
     den |-> 1]

HHOS_reward_plain(e) ==
    LET weights == IF e.thrust_control_planner
                   THEN <<e.w_ye, e.w_ce, e.w_coll, e.w_comf, e.w_speed>>
                   ELSE <<e.w_ye, e.w_ce, e.w_coll>>
        rews    == IF e.thrust_control_planner
                   THEN <<e.r_ye, e.r_ce, e.r_coll, e.r_comf, e.r_speed>>
                   ELSE <<e.r_ye, e.r_ce, e.r_coll>>
    IN  [num |-> SumSeq(Times(weights, rews)), den |-> 1]

\* HHOS_PathPlanning_Env._calculate_reward: self.r
HHOS_reward(e) ==
    LET weights == IF e.thrust_control_planner
                   THEN <<e.w_ye, e.w_ce, e.w_coll, e.w_comf, e.w_speed>>
                   ELSE <<e.w_ye, e.w_ce, e.w_coll>>
        rews    == IF e.thrust_control_planner
                   THEN <<e.r_ye, e.r_ce, e.r_coll, e.r_comf, e.r_speed>>
                   ELSE <<e.r_ye, e.r_ce, e.r_coll>>
    IN  IF SumSeq(weights) # 0
        THEN [num |-> SumSeq(Times(weights, rews)), den |-> SumSeq(weights)]
        ELSE [num |-> 0, den |-> 1]

\* a FossenEnv whose reward terms have been computed; step passes no
\* weights, a direct call may
FossenRewardInputs ==
    [ cls : {"FossenEnv"}, r_dist : {-600}, r_head : {0, -1500}, r_coll : {0, -10000},
      r_COLREG : {0, -3000}, r_comf : {-100},
      w_dist : {0, 1}, w_head : {1}, w_coll : {1, 2}, w_COLREG : {0, 1}, w_comf : {1},
      r : {[num |-> 0, den |-> 1]} ]

\* a HHOS_PathPlanning_Env whose reward terms have been computed
HHOSRewardInputs ==
    [ cls : {"HHOS_PathPlanning_Env"}, thrust_control_planner : BOOLEAN,
      r_ye : {1000, 600}, r_ce : {0, -10000}, r_coll : {-10000}, r_comf : {-250},
      r_speed : {-1000},
      w_ye : {0, 1}, w_ce : {0, 1}, w_coll : {0, 2}, w_comf : {0, 1}, w_speed : {0, -1},
      r : {[num |-> 0, den |-> 1]} ]

InitReward ==
    /\ IdleEpisode
    /\ env \in FossenRewardInputs \cup HHOSRewardInputs
    /\ op = "terms"

FossenAggregate ==
    /\ op = "terms" /\ env.cls = "FossenEnv"
    /\ env' = [env EXCEPT !.r = FossenEnv_reward(env)]
    /\ op' = "reward"
    /\ UNCHANGED episode

HHOSAggregate ==
    /\ op = "terms" /\ env.cls = "HHOS_PathPlanning_Env"
    /\ env' = [env EXCEPT !.r = HHOS_reward(env)]
    /\ op' = "reward"
    /\ UNCHANGED episode

NextReward == FossenAggregate \/ HHOSAggregate

SpecReward == InitReward /\ [][NextReward]_vars

(***************************************************************************)
(* Properties of the reward aggregation (specification SpecReward)         *)
(***************************************************************************)
\* the weighted sum of the active terms of a HHOS_PathPlanning_Env, and the
\* sum of their weights
HHOS_WeightedSum ==
    env.w_ye * env.r_ye + env.w_ce * env.r_ce + env.w_coll * env.r_coll
        + (IF env.thrust_control_planner
           THEN env.w_comf * env.r_comf + env.w_speed * env.r_speed ELSE 0)

HHOS_WeightSum ==
    env.w_ye + env.w_ce + env.w_coll
        + (IF env.thrust_control_planner THEN env.w_comf + env.w_speed ELSE 0)

\* C23: FossenEnv's reward is the plain weighted sum of its five terms,
\* never divided by the sum of the weights; HHOS_PathPlanning_Env's reward
\* is the weighted sum of its active terms (comf and speed only with
\* thrust_control_planner) divided by the sum of their weights, and 0 when
\* that sum is 0.
C23_Aggregation ==
    op = "reward" =>
        IF env.cls = "FossenEnv"
        THEN /\ env.r.den = 1
             /\ env.r.num = env.w_dist * env.r_dist + env.w_head * env.r_head
                               + env.w_coll * env.r_coll + env.w_COLREG * env.r_COLREG
                               + env.w_comf * env.r_comf
        ELSE IF HHOS_WeightSum = 0
             THEN env.r.num = 0
             ELSE env.r.num * HHOS_WeightSum = HHOS_WeightedSum * env.r.den

\* a HHOS reward that the division changes, computed without thrust control
\* from weights that do not add up to 1
C23_Witness ==
    /\ op = "reward"
    /\ env.cls = "HHOS_PathPlanning_Env"
    /\ ~env.thrust_control_planner
    /\ HHOS_WeightSum = 3
    /\ env.w_comf # 0
    /\ env.r.num = HHOS_WeightedSum /\ env.r.den = 3 /\ env.r.num # 0

(***************************************************************************)
(* Specification SpecAction: HHOS_PathPlanning_Env.step called with drawn  *)
(* actions, in and out of [-1, 1].  Action components count quarters,      *)
(* surge speeds mm/s, propeller revolutions 1/1000 per second, sim_t       *)
(* seconds.  The planner's own ship sails straight (v = r = 0, rudder 0)   *)
(* at the revolutions that hold its speed, so the dynamics update leaves   *)
(* heading, surge speed and revolutions as the controls set them.          *)
(***************************************************************************)
\* KVLCC2._get_nps_from_u: the revolutions at which the surge force vanishes
\* for v = r = 0 and rudder 0; hull resistance and thrust are both
\* quadratic, so the root is 0.2426 * u
get_nps_from_u(u) == RoundDiv(2426 * u, 10000)

\* the actions handed to step, by the size of the action space
StepActions(thrust) ==
    IF thrust THEN { <<a, b>> : a \in {-5, -4, 0, 2, 5}, b \in {-5, -2, 0, 4, 5} }
    ELSE { <<a>> : a \in {-5, -4, 0, 2, 4, 5} }

HHOS_controls_atomic(k, thrust, a) ==
    IF \E i \in DOMAIN a : ~(-4 <= a[i] /\ a[i] <= 4)
    THEN [kv |-> k, error |-> TRUE]
    ELSE LET k1 == manual_heading_control(k, a[1])
             u1 == Clip(k1.u + a[2] * 125, 100, 5000)
         IN  IF thrust
             THEN [kv |-> [k1 EXCEPT !.u = u1, !.nps = get_nps_from_u(u1)], error |-> FALSE]
             ELSE [kv |-> k1, error |-> FALSE]

\* the control part of step: _manual_heading_control on a[0], then with
\* thrust_control_planner _manual_surge_control on a[1]; each asserts
\* -1 <= a <= 1 before it writes
HHOS_controls(k, thrust, a) ==
    IF ~(-4 <= a[1] /\ a[1] <= 4)
    THEN [kv |-> k, error |-> TRUE]
    ELSE LET k1 == manual_heading_control(k, a[1])
         IN  IF ~thrust
             THEN [kv |-> k1, error |-> FALSE]
             ELSE IF ~(-4 <= a[2] /\ a[2] <= 4)
             THEN [kv |-> k1, error |-> TRUE]
             ELSE LET u1 == Clip(k1.u + a[2] * 125, 100, 5000)
                  IN  [kv |-> [k1 EXCEPT !.u = u1, !.nps = get_nps_from_u(u1)],
                       error |-> FALSE]

InitAction ==
    /\ IdleOutputs
    /\ OS = Vessel(0, 0, 0, 0, 0, 0)
    /\ goal = [N |-> 0, E |-> 0]
    /\ TSs = <<>>
    /\ TS_COLREGs = <<>>
    /\ TS_COLREGs_old = <<>>
    /\ respawn_flags = <<>>
    /\ step_cnt = 0
    /\ spawned = {}
    /\ depth = 0
    /\ \E h \in {0, 3, TwoPi - 1} : \E u \in {100, 3000, 5000} :
          kv = [Idle_kv EXCEPT !.psi = h, !.u = u, !.nps = get_nps_from_u(u)]
    /\ ret = Idle_ret
    /\ hhos = Idle_hhos
    /\ \E thrust \in BOOLEAN :
          env = [cls |-> "HHOS_PathPlanning_Env", thrust_control_planner |-> thrust,
                 a |-> <<>>, step_cnt |-> 0, sim_t |-> 0]
    /\ op = "hhos_reset"

\* step(a): self.a is stored, the controls are applied, then step_cnt and
\* sim_t (n_loops * delta_t = 60 s) are increased
HHOSStepAction ==
    /\ op \in {"hhos_reset", "hhos_step"}
    /\ env.step_cnt < MaxDepth
    /\ \E a \in StepActions(env.thrust_control_planner) :
          LET c == HHOS_controls(kv, env.thrust_control_planner, a)
          IN  /\ kv' = c.kv
              /\ IF c.error
                 THEN /\ env' = [env EXCEPT !.a = a]
                      /\ op' = "AssertionError"
                 ELSE /\ env' = [env EXCEPT !.a = a, !.step_cnt = env.step_cnt + 1,
                                            !.sim_t = env.sim_t + 60]
                      /\ op' = "hhos_step"
    /\ UNCHANGED <<OS, goal, TSs, TS_COLREGs, TS_COLREGs_old, respawn_flags,
                   step_cnt, spawned, depth, ret, hhos, outs>>

NextAction == HHOSStepAction

SpecAction == InitAction /\ [][NextAction]_vars

(***************************************************************************)
(* Properties of rejected actions (specification SpecAction)               *)
(***************************************************************************)
OutOfRange(x) == x < -4 \/ x > 4

\* the fields a rejected call leaves alone whatever the action
KeepsCounters ==
    /\ kv'.u = kv.u /\ kv'.nps = kv.nps
    /\ env'.step_cnt = env.step_cnt /\ env'.sim_t = env.sim_t

\* C24: a step whose action has a component outside [-1, 1] is rejected with
\* an error, and heading, surge speed, propeller revolutions, step counter
\* and simulation time are after the call what they were before it, also
\* when only the thrust component is out of range.
C24_RejectedUnchanged ==
    [][(\E i \in DOMAIN env'.a : OutOfRange(env'.a[i]))
          => /\ op' = "AssertionError"
             /\ KeepsCounters
             /\ kv'.psi = kv.psi]_vars

\* C24 (amended): such a step is rejected with an error; surge speed,
\* revolutions, step counter and simulation time are unchanged; the heading
\* is unchanged when the heading component is out of range, and is turned by
\* a[0] * d_head_scale when only the thrust component is.
C24_RejectedAfterHeading ==
    [][(\E i \in DOMAIN env'.a : OutOfRange(env'.a[i]))
          => /\ op' = "AssertionError"
             /\ KeepsCounters
             /\ kv'.psi = IF OutOfRange(env'.a[1]) THEN kv.psi
                          ELSE angle_to_2pi(kv.psi + (env'.a[1] * d_head_scale) \div 4)]_vars

\* rejected for the thrust component alone, after a heading component that
\* turns the ship
C24_Witness ==
    /\ op = "AssertionError"
    /\ Len(env.a) = 2
    /\ env.a[1] = 2
    /\ OutOfRange(env.a[2])
    /\ kv.psi = 1

(***************************************************************************)
(* Specification SpecAgent: the constructors of CNN_DQN_Agent and          *)
(* TQC_Agent called with drawn arguments.  A weight argument is "none" or  *)
(* a file name; created lists what the constructor has created when it     *)
(* returns or fails.                                                       *)
(***************************************************************************)
AgentArgs ==
    [ cls : {"CNN_DQN_Agent"}, mode : {"train", "test", "eval"},
      dqn_weights : {"none", "dqn.pth"}, state_shape_ok : BOOLEAN, n_steps : {0, 1},
      device : {"cpu", "tpu"}, input_norm : BOOLEAN, input_norm_prior : {"none", "prior.pkl"},
      created : {{}}, error : {FALSE} ]
    \cup
    [ cls : {"TQC_Agent"}, mode : {"train", "test", "eval"},
      actor_weights : {"none", "actor.pth"}, critic_weights : {"none", "critic.pth"},
      device : {"cpu", "cuda", "tpu"}, created : {{}}, error : {FALSE} ]

Failed(a, made) == [a EXCEPT !.created = made, !.error = TRUE]

CNN_DQN_Agent_init_late(a) ==
    IF ~a.state_shape_ok \/ a.n_steps < 1 \/ a.device \notin {"cpu", "cuda"}
    THEN Failed(a, {})
    ELSE IF a.mode \notin {"train", "test"} \/ (a.mode = "test" /\ a.dqn_weights = "none")
    THEN Failed(a, {"logger"})
    ELSE [a EXCEPT !.created = {"logger", "DQN", "target_DQN", "DQN_optimizer"}
                        \cup (IF a.mode = "train" THEN {"replay_buffer"} ELSE {})
                        \cup (IF a.input_norm THEN {"inp_normalizer"} ELSE {})]

\* CNN_DQN_Agent.__init__
CNN_DQN_Agent_init(a) ==
    LET buffer == IF a.mode = "train" THEN {"replay_buffer"} ELSE {}
    IN  IF a.mode \notin {"train", "test"} THEN Failed(a, {})
        ELSE IF a.mode = "test" /\ a.dqn_weights = "none" THEN Failed(a, {})
        ELSE IF ~a.state_shape_ok THEN Failed(a, {})
        ELSE IF a.n_steps < 1 THEN Failed(a, {})
        ELSE IF a.device \notin {"cpu", "cuda"} THEN Failed(a, {})
        ELSE IF a.input_norm /\ a.mode = "test" /\ a.input_norm_prior = "none"
        THEN Failed(a, {"logger"} \cup buffer)
        ELSE [a EXCEPT !.created = {"logger", "DQN", "target_DQN", "DQN_optimizer"} \cup buffer
                            \cup (IF a.input_norm THEN {"inp_normalizer"} ELSE {})]

\* TQC_Agent.__init__
TQC_Agent_init(a) ==
    IF a.mode \notin {"train", "test"} THEN Failed(a, {})
    ELSE IF a.mode = "test" /\ (a.actor_weights = "none" \/ a.critic_weights = "none")
    THEN Failed(a, {})
    ELSE IF a.device \notin {"cpu", "cuda"} THEN Failed(a, {"log_alpha"})
    ELSE [a EXCEPT !.created = {"log_alpha", "logger", "replay_buffer", "action_normalizer",
                                "actor", "critic", "critic_target", "actor_optim",
                                "critic_optim", "temp_optim"}]

InitAgent ==
    /\ IdleEpisode
    /\ env \in AgentArgs
    /\ op = "args"

ConstructDQN ==
    /\ op = "args" /\ env.cls = "CNN_DQN_Agent"
    /\ env' = CNN_DQN_Agent_init(env)
    /\ op' = "init"
    /\ UNCHANGED episode

ConstructTQC ==
    /\ op = "args" /\ env.cls = "TQC_Agent"
    /\ env' = TQC_Agent_init(env)
    /\ op' = "init"
    /\ UNCHANGED episode

NextAgent == ConstructDQN \/ ConstructTQC

SpecAgent == InitAgent /\ [][NextAgent]_vars

(***************************************************************************)
(* Properties of the agents' constructors (specification SpecAgent)        *)
(***************************************************************************)
UnknownMode == env.mode \notin {"train", "test"}

MissingWeights ==
    /\ env.mode = "test"
    /\ IF env.cls = "CNN_DQN_Agent" THEN env.dqn_weights = "none"
       ELSE env.actor_weights = "none" \/ env.critic_weights = "none"

\* C25: constructing either agent with a mode other than 'train' or 'test',
\* or in 'test' mode without its prior weights, fails, and no logger,
\* replay buffer, network or optimizer has been created when it fails.
C25_RejectedFirst ==
    op = "init" /\ (UnknownMode \/ MissingWeights) =>
        /\ env.error
        /\ env.created \cap {"logger", "replay_buffer", "DQN", "target_DQN", "DQN_optimizer",
                             "actor", "critic", "critic_target", "actor_optim",
                             "critic_optim", "temp_optim"} = {}

\* a CNN_DQN_Agent in test mode without weights whose other arguments are
\* valid, and that has failed
C25_Witness ==
    /\ op = "init"
    /\ env.cls = "CNN_DQN_Agent"
    /\ MissingWeights
    /\ env.state_shape_ok /\ env.n_steps = 1 /\ env.device = "cpu"
    /\ env.error /\ env.created = {}

(***************************************************************************)
(* Properties of the stored situations over time (specification Spec)      *)
(***************************************************************************)
\* the stored situations after a reset or a step: one entry per target in
\* both lists, the new list computed from the vessels now in self.TSs
StoredPerTarget ==
    /\ Len(TS_COLREGs') = Len(TSs') /\ Len(TS_COLREGs_old') = Len(TSs')
    /\ \A i \in DOMAIN TSs' : TS_COLREGs'[i] = get_COLREG_situation(OS', TSs'[i])

\* C27 as stated: after reset and after every step both lists have one entry
\* per active target, TS_COLREGs[i] is the situation of the vessel now at
\* index i, and TS_COLREGs_old[i] is all none after reset and after a step the
\* value TS_COLREGs[i] had before, which is the previous tick's situation of
\* the vessel that now occupies index i.
C27_SameVessel ==
    [][ /\ StoredPerTarget
        /\ op' = "reset" => \A i \in DOMAIN TSs' : TS_COLREGs_old'[i] = 0
        /\ op' = "step" =>
              /\ TS_COLREGs_old' = TS_COLREGs
              /\ \A i \in DOMAIN TSs' :
                    /\ i \notin spawned'
                    /\ TS_COLREGs_old'[i] = get_COLREG_situation(OS, TSs[i]) ]_vars

\* C27: after reset and after every step both lists have one entry per
\* active target, TS_COLREGs[i] is the situation of the vessel now at index i,
\* and TS_COLREGs_old[i] is all none after reset and after a step the value
\* TS_COLREGs[i] had before: the previous tick's situation of the vessel that
\* was at index i then, which is the vessel at index i now unless the step
\* has respawned it.
C27_SameIndex ==
    [][ /\ StoredPerTarget
        /\ op' = "reset" => \A i \in DOMAIN TSs' : TS_COLREGs_old'[i] = 0
        /\ op' = "step" =>
              /\ TS_COLREGs_old' = TS_COLREGs
              /\ \A i \in DOMAIN TSs' :
                    TS_COLREGs_old'[i] = get_COLREG_situation(OS, TSs[i]) ]_vars

\* after a step a respawned target's old entry is the one stored for the
\* vessel it replaced, and differs from the situation of the new vessel
C27_Witness ==
    /\ op = "step"
    /\ \E i \in spawned : TS_COLREGs[i] # TS_COLREGs_old[i]

(***************************************************************************)
(* Specification SpecMMG: KVLCC2._upd_dynamics with the forces of          *)
(* _mmg_dynamics, called once on a drawn vessel in straight motion         *)
(* (v = r = 0, u >= 0).  u and v count micrometres per second, r           *)
(* nanoradians per second, nps 1/1000 revolutions per second, the rudder   *)
(* and the heading steps of 2.5 degrees, positions millimetres; forces are *)
(* divided by 0.5 * rho * Lpp * d and count square millimetres per square  *)
(* second.  env.before keeps position and velocity as they were at the     *)
(* call.                                                                   *)
(***************************************************************************)
advance_ratio_unguarded(u, nps) ==
    IF nps = 0 THEN [J |-> 0, zero |-> FALSE, error |-> TRUE]
    ELSE [J |-> RoundDiv(91000 * u, 986 * nps), zero |-> FALSE, error |-> FALSE]

\* the advance ratio J in thousandths, for u in mm/s: 0 without propeller
\* movement, else (1 - w_P) * u / (nps * D_p) with w_P = 0.09 at beta_P = 0
advance_ratio(u, nps) ==
    IF nps = 0 THEN [J |-> 0, zero |-> TRUE, error |-> FALSE]
    ELSE [J |-> RoundDiv(91000 * u, 986 * nps), zero |-> FALSE, error |-> FALSE]

\* _mmg_dynamics(nu, psi, rud_angle, nps, fl_psi, fl_vel) for nu = (u, 0, 0):
\* nu_dot in micrometres and nanoradians per square second, the zero
\* branches taken, and whether a division by zero was met
mmg_dynamics(k, fl_vel) ==
    LET u    == RoundDiv(k.u, 1000)
        vm   == RoundDiv(k.v, 1000)
        U    == Isqrt(Sq(u) + Sq(vm))
        \* beta, v_dash and r_dash are 0 in both branches when v = r = 0
        X_H  == -RoundDiv(22 * Sq(U), 1000)
        adv  == advance_ratio(u, k.nps)
        J    == adv.J
        K_T  == 2931 - RoundDiv(2753 * J, 1000) - RoundDiv(1359 * Sq(J), 1000000)
        X_P  == RoundDiv(RoundDiv(2215 * (Sq(k.nps) \div 1000), 1000) * K_T, 10)
        \* v_R = U * gamma_R_plus * beta_R = 0
        root == Isqrt((1000 + RoundDiv(254648 * K_T, Sq(J))) * 1000)
        flow == 1000 + RoundDiv(root - 1000, 2)
        u_R  == IF J = 0 THEN 0
                ELSE RoundDiv(RoundDiv(u * 9919, 10000)
                              * Isqrt((RoundDiv(RoundDiv(Sq(flow), 1000) * 626, 1000) + 374) * 1000),
                              1000)
        \* alpha_R = rud_angle - atan2(0, u_R) = rud_angle, as u_R >= 0
        F_N  == RoundDiv(RoundDiv(RoundDiv(Sq(u_R), 1000) * 4643, 100) * Sin(k.rud_angle), 1000)
        X_R  == -RoundDiv(RoundDiv(613 * F_N, 1000) * Sin(k.rud_angle), 1000)
        Y_R  == -RoundDiv(RoundDiv(1312 * F_N, 1000) * Cos(k.rud_angle), 1000)
        \* N_R in hundreds
        N_R  == RoundDiv(RoundDiv(4683 * RoundDiv(F_N, 10), 1000) * Cos(k.rud_angle), 1000)
        d_u  == RoundDiv((X_H + X_R + X_P) * 100, 10097)
        d_vm == RoundDiv(1000 * Y_R - RoundDiv(1094 * N_R, 10), 164139)
        d_r  == RoundDiv(1040 * N_R, 10000) - RoundDiv(10942 * d_vm, 10000)
        d_v  == d_vm + RoundDiv(112 * d_r, 10000)
    IN  IF adv.error
        THEN [nu_dot |-> <<0, 0, 0>>, branches |-> {}, error |-> TRUE]
        ELSE [nu_dot |-> <<d_u, d_v, d_r>>,
              branches |-> (IF U = 0 THEN {"U == 0.0"} ELSE {})
                           \cup (IF adv.zero THEN {"nps == 0.0"} ELSE {})
                           \cup (IF J = 0 THEN {"J == 0.0"} ELSE {})
                           \cup (IF fl_vel = 0 THEN {"no current"} ELSE {}),
              error |-> FALSE]

\* _upd_dynamics: nu += nu_dot * delta_t, eta advanced by the mean of the old
\* and the new world-frame velocity, the heading wrapped
upd_dynamics_mmg(k) ==
    LET f     == mmg_dynamics(k, 0)
        u_new == k.u + f.nu_dot[1] * k.delta_t
        v_new == k.v + f.nu_dot[2] * k.delta_t
        r_new == k.r + f.nu_dot[3] * k.delta_t
        su    == RoundDiv(k.u + u_new, 1000)
        sv    == RoundDiv(k.v + v_new, 1000)
    IN  IF f.error
        THEN [k EXCEPT !.error = TRUE]
        ELSE [k EXCEPT !.nu_dot = f.nu_dot, !.branches = f.branches,
                       !.u = u_new, !.v = v_new, !.r = r_new,
                       !.N = k.N + RoundDiv((su * Cos(k.psi) - sv * Sin(k.psi)) * k.delta_t, 2000),
                       !.E = k.E + RoundDiv((su * Sin(k.psi) + sv * Cos(k.psi)) * k.delta_t, 2000),
                       !.psi = angle_to_2pi(k.psi + RoundDiv((k.r + r_new) * k.delta_t, 87266462))]

MMGVessels ==
    { [cls |-> "KVLCC2", N |-> 100000, E |-> 100000, psi |-> h, u |-> u, v |-> 0, r |-> 0,
       rud_angle |-> rud, nps |-> n, delta_t |-> 1, nu_dot |-> <<0, 0, 0>>,
       branches |-> {}, error |-> FALSE, before |-> <<100000, 100000, u, 0, 0>>] :
      h \in {0, 18, 100}, u \in {0, 1000000, 2000000, 4000000},
      rud \in {-4, -2, 0, 2, 4}, n \in {0, 1000, 2000} }

InitMMG ==
    /\ IdleEpisode
    /\ env \in MMGVessels
    /\ op = "constructed"

MMGUpdDynamics ==
    /\ op = "constructed"
    /\ env' = upd_dynamics_mmg(env)
    /\ op' = IF env'.error THEN "ZeroDivisionError" ELSE "upd_dynamics"
    /\ UNCHANGED episode

NextMMG == MMGUpdDynamics

SpecMMG == InitMMG /\ [][NextMMG]_vars

(***************************************************************************)
(* Properties of the vessel at rest (specification SpecMMG)                *)
(***************************************************************************)
AtRestBefore ==
    /\ env.before[3] = 0 /\ env.before[4] = 0 /\ env.before[5] = 0
    /\ env.rud_angle = 0 /\ env.nps = 0

\* C26: for a vessel with u = v = r = 0, rudder angle 0 and nps = 0, without
\* current, _mmg_dynamics meets no division by zero, takes the zero branches
\* of drift angle and non-dimensional velocities, of the advance ratio and of
\* the rudder inflow, and returns zero surge, sway and yaw accelerations;
\* _upd_dynamics leaves position and velocity as they were.
C26_RestStaysAtRest ==
    op # "constructed" /\ AtRestBefore =>
        /\ op = "upd_dynamics" /\ ~env.error
        /\ env.nu_dot = <<0, 0, 0>>
        /\ {"U == 0.0", "nps == 0.0", "J == 0.0", "no current"} \subseteq env.branches
        /\ <<env.N, env.E, env.u, env.v, env.r>> = env.before

\* _upd_dynamics has run on a vessel at rest heading north-east
C26_Witness ==
    /\ op = "upd_dynamics"
    /\ AtRestBefore
    /\ env.psi = 18
    /\ env.nu_dot = <<0, 0, 0>>

(***************************************************************************)
(* Specification SpecTraj: the trajectory bookkeeping of FossenEnv with    *)
(* plot_traj under reset and step with any pattern of respawns.  Vessels   *)
(* are told apart by a number given at creation; a slot of TS_traj keeps,  *)
(* for each position appended to TS_traj_N and TS_traj_E, the number of    *)
(* the vessel it came from.  TS_ptr holds the code's 0-based indices.      *)
(***************************************************************************)
\* steps modelled after a reset
MaxTrajSteps == 4

\* reset, lines 180-192: one empty slot per target, pointers 0..N_TSs-1, then
\* the first position of each target
FossenEnv_traj_reset(n) ==
    [cls |-> "FossenEnv", N_TSs |-> n,
     TSs |-> [i \in 1..n |-> i], next_id |-> n + 1,
     TS_ptr |-> [i \in 1..n |-> i - 1],
     TS_traj |-> [i \in 1..n |-> << i >>],
     respawn_flags |-> [i \in 1..n |-> FALSE],
     respawns |-> 0, step_cnt |-> 0]

MaxSeq(s) == CHOOSE x \in Range(s) : \A y \in Range(s) : y <= x

traj_new_slot_keep_ptr(e, i) == [e EXCEPT !.TS_traj = Append(e.TS_traj, <<>>)]

\* step, lines 505-510: a new slot, and the pointer of index i set behind the
\* largest pointer
traj_new_slot(e, i) ==
    [e EXCEPT !.TS_traj = Append(e.TS_traj, <<>>),
              !.TS_ptr[i] = MaxSeq(e.TS_ptr) + 1]

\* step, lines 503-510: the loop over respawn_flags from index i on
RECURSIVE traj_respawns(_, _)
traj_respawns(e, i) ==
    IF i > e.N_TSs THEN e
    ELSE traj_respawns(IF e.respawn_flags[i] THEN traj_new_slot(e, i) ELSE e, i + 1)

\* step, lines 513-516: the position of every target appended to its slot
traj_update(e) ==
    [e EXCEPT !.TS_traj =
        [s \in DOMAIN e.TS_traj |->
            LET here == { i \in 1..e.N_TSs : e.TS_ptr[i] + 1 = s }
            IN  IF here = {} THEN e.TS_traj[s]
                ELSE Append(e.TS_traj[s], e.TSs[CHOOSE i \in here : TRUE])]]

\* step, lines 491-516, with the vessels that _handle_respawn replaced given
\* by flags
FossenEnv_traj_step(e, flags) ==
    LET born == { i \in 1..e.N_TSs : flags[i] }
        rank(i) == Cardinality({ j \in born : j < i })
        e1 == [e EXCEPT !.TSs = [i \in 1..e.N_TSs |->
                                    IF flags[i] THEN e.next_id + rank(i) ELSE e.TSs[i]],
                        !.next_id = e.next_id + Cardinality(born),
                        !.respawn_flags = flags,
                        !.respawns = e.respawns + Cardinality(born),
                        !.step_cnt = e.step_cnt + 1]
    IN  IF e.N_TSs > 0 THEN traj_update(traj_respawns(e1, 1)) ELSE e1

InitTraj ==
    /\ IdleEpisode
    /\ env = [cls |-> "FossenEnv", N_TSs |-> 0, TSs |-> <<>>, next_id |-> 1,
              TS_ptr |-> <<>>, TS_traj |-> <<>>, respawn_flags |-> <<>>,
              respawns |-> 0, step_cnt |-> 0]
    /\ op = "init"

TrajReset ==
    /\ \E n \in 0..N_TSs_max : env' = FossenEnv_traj_reset(n)
    /\ op' = "reset"
    /\ UNCHANGED episode

TrajStep ==
    /\ op \in {"reset", "step"}
    /\ env.step_cnt < MaxTrajSteps
    /\ \E flags \in [1..env.N_TSs -> BOOLEAN] : env' = FossenEnv_traj_step(env, flags)
    /\ op' = "step"
    /\ UNCHANGED episode

NextTraj == TrajReset \/ TrajStep

SpecTraj == InitTraj /\ [][NextTraj]_vars

(***************************************************************************)
(* Properties of the trajectory bookkeeping (specification SpecTraj)       *)
(***************************************************************************)
\* C29: after reset and after every step TS_ptr has one entry per active
\* target, its entries are pairwise distinct and valid indices into the
\* slots; the slot of a vessel respawned in the step holds that vessel's
\* first position only; there are N_TSs plus the number of respawns slots;
\* and every slot holds positions of a single vessel, the slot a target
\* points to those of that target.
C29_TrajConsistent ==
    op \in {"reset", "step"} =>
        /\ Len(env.TS_ptr) = env.N_TSs
        /\ \A i, j \in 1..env.N_TSs : i # j => env.TS_ptr[i] # env.TS_ptr[j]
        /\ \A i \in 1..env.N_TSs : 0 <= env.TS_ptr[i] /\ env.TS_ptr[i] < Len(env.TS_traj)
        /\ \A i \in 1..env.N_TSs :
              op = "step" /\ env.respawn_flags[i] =>
                  env.TS_traj[env.TS_ptr[i] + 1] = << env.TSs[i] >>
        /\ Len(env.TS_traj) = env.N_TSs + env.respawns
        /\ \A s \in DOMAIN env.TS_traj : Cardinality(Range(env.TS_traj[s])) <= 1
        /\ \A i \in 1..env.N_TSs : Range(env.TS_traj[env.TS_ptr[i] + 1]) = {env.TSs[i]}

\* two targets were respawned in one step, after an earlier respawn
C29_Witness ==
    /\ op = "step"
    /\ env.respawns >= 3
    /\ Cardinality({ i \in 1..env.N_TSs : env.respawn_flags[i] }) >= 2

(***************************************************************************)
(* Specification SpecPad: the target block of                              *)
(* HHOS_PathPlanning_Env._set_state in the 'conventional' design, one      *)
(* pass of the padding loop per step.  Features count tenths; of a real    *)
(* target only the closeness is drawn.  The fleet holds between 0 and      *)
(* N_TSs_max targets, and the LiDAR returns lidar_n_beams values.          *)
(***************************************************************************)
ghost_ship == <<0, -10, -10, 0, -10, -10>>

\* sorted(state_TSs, key=lambda x: x[0]): stable, ascending in the closeness
RECURSIVE SortedByCloseness(_)
SortedByCloseness(s) ==
    IF s = <<>> THEN <<>>
    ELSE LET least == CHOOSE i \in DOMAIN s :
                         /\ \A j \in DOMAIN s : s[i][1] <= s[j][1]
                         /\ \A j \in 1..(i - 1) : s[j][1] # s[i][1]
         IN  <<s[least]>> \o SortedByCloseness([j \in 1..(Len(s) - 1) |->
                                                   IF j < least THEN s[j] ELSE s[j + 1]])

\* np.hstack of a non-empty list of blocks
RECURSIVE hstack(_)
hstack(s) == IF s = <<>> THEN <<>> ELSE s[1] \o hstack(Tail(s))

\* the fleets the environment holds: N_TSs_max, lidar_n_beams and the rows
\* of state_TSs before padding
PadInputs ==
    UNION { [ cls : {"HHOS_PathPlanning_Env"}, N_TSs_max : {nmax}, lidar_n_beams : {1, 2},
              obs_size : {0}, state_TSs : [1..n -> { <<c, 0, 5, 10, 10, -10>> : c \in {0, 3, 5, 10} }],
              state : {<<>>}, passes : {0} ] : nmax \in 0..N_TSs_max, n \in 0..N_TSs_max }

InitPad ==
    /\ IdleEpisode
    /\ \E e \in PadInputs :
          /\ Len(e.state_TSs) <= e.N_TSs_max
          /\ env = [e EXCEPT !.obs_size = 3 + e.lidar_n_beams + 6 * e.N_TSs_max]
    /\ op = "padding"

\* one pass of 'while len(state_TSs) != self.N_TSs_max'
PadGhost ==
    /\ op = "padding"
    /\ Len(env.state_TSs) # env.N_TSs_max
    /\ env' = [env EXCEPT !.state_TSs = Append(env.state_TSs, ghost_ship),
                          !.passes = env.passes + 1]
    /\ op' = "padding"
    /\ UNCHANGED episode

\* the loop left: sort, stack, and concatenate with the own-ship, path and
\* LiDAR parts; np.hstack raises ValueError on an empty list
SortAndStack ==
    /\ op = "padding"
    /\ Len(env.state_TSs) = env.N_TSs_max
    /\ IF env.state_TSs = <<>>
       THEN /\ env' = env
            /\ op' = "ValueError"
       ELSE /\ env' = [env EXCEPT !.state_TSs = SortedByCloseness(env.state_TSs),
                                  !.state = [i \in 1..(3 + env.lidar_n_beams) |-> 0]
                                            \o hstack(SortedByCloseness(env.state_TSs))]
            /\ op' = "set_state"
    /\ UNCHANGED episode

NextPad == PadGhost \/ SortAndStack

SpecPad == InitPad /\ [][NextPad]_vars

(***************************************************************************)
(* Properties of the padded target block (specification SpecPad)           *)
(***************************************************************************)
\* C30: the padding loop is left after at most N_TSs_max passes, and once it
\* is left _set_state has built a block of exactly N_TSs_max rows of 6
\* features in ascending closeness and a state of the declared size.
C30_PaddedBlock ==
    /\ env.passes <= env.N_TSs_max
    /\ op # "padding" =>
          /\ op = "set_state"
          /\ Len(env.state_TSs) = env.N_TSs_max
          /\ \A i \in DOMAIN env.state_TSs : Len(env.state_TSs[i]) = 6
          /\ \A i, j \in DOMAIN env.state_TSs :
                i < j => env.state_TSs[i][1] <= env.state_TSs[j][1]
          /\ Len(env.state) = env.obs_size

=============================================================================
